---- MODULE Spec2Model ----
(***************************************************************************)
(* A model of src/git-worktree.ts: the worktree inventory (getRepoInfo)    *)
(* and the add / list / remove / merge subcommands and the interactive     *)
(* picker, run against a small git repository and filesystem.              *)
(*                                                                         *)
(* Strings are sequences of one-character strings; a path is a sequence    *)
(* of segments (each a string), the root being <<>>.  A value the code     *)
(* leaves `undefined` is the empty sequence (strings, paths) or index 0    *)
(* (a reference to an entry of info.worktrees); the code only ever tests   *)
(* those values for truthiness.                                            *)
(***************************************************************************)
EXTENDS Integers, Sequences, FiniteSets, TLC

\* ------------------------------------------------------------------ bounds

\* The number of invocations of the command, one after the other.
MaxRuns == 2

\* The length of the branch strings normalizeBranch is tried on.
MaxBranchLen == 3

\* The number of lines of the texts parseWorktrees is tried on.
MaxLines == 4

\* ------------------------------------------------------------------- state

VARIABLES
    \* the repository and the filesystem
    wts,        \* git's worktree records, in `git worktree list` order (main first)
    dirs,       \* the directories that exist (real paths)
    gitDirs,    \* the directories p whose p/.git is a real directory
    branches,   \* the local branches (refs/heads/*)
    symlinks,   \* the symbolic links that exist (their targets: LinkTarget)
    files,      \* the regular files: pairs <<directory, name>>
    strays,     \* worktree directories of the repository moved away from their listed path
    runs,       \* the invocations started so far
    \* the process: one CLI invocation
    pc,         \* where the handler is
    cmd,        \* the subcommand
    arg,        \* argv.branch, <<>> when absent; in the picker, the branch typed
    cwd,        \* process.cwd()
    home,       \* the HOME environment variable, <<>> when unset
    stdinTTY,   \* process.stdin.isTTY
    stdoutTTY,  \* process.stdout.isTTY
    info,       \* the RepoInfo built by getRepoInfo
    local,      \* the handler's local variables
    calls,      \* the external commands invoked so far, with their outcome
    prompts,    \* the prompts shown so far, with their answer
    made,       \* the directories this invocation created itself (mkdirSync)
    stdout,     \* the lines printed by console.log
    stderr,     \* the messages printed by console.error
    exitCode    \* the exit status; -1 while running

world == <<wts, dirs, gitDirs, branches, symlinks, files, strays>>
proc == <<pc, cmd, arg, cwd, home, stdinTTY, stdoutTTY, info, local, calls, prompts,
          made, stdout, stderr, exitCode>>
vars == <<wts, dirs, gitDirs, branches, symlinks, files, strays, runs,
          pc, cmd, arg, cwd, home, stdinTTY, stdoutTTY, info, local, calls, prompts,
          made, stdout, stderr, exitCode>>

\* ------------------------------------------------------------ characters

Letters == {"a", "b", "c", "d", "e", "f", "g", "h", "i", "j", "k", "l", "m",
            "n", "o", "p", "q", "r", "s", "t", "u", "v", "w", "x", "y", "z"}

\* The class [A-Za-z0-9._-] of normalizeBranch's regular expression.
IsAllowedChar(c) == c \in Letters \cup {"0", "1", ".", "_", "-"}

\* What String.prototype.trim removes.
IsSpace(c) == c \in {" ", "\t"}

\* ---------------------------------------------------------------- strings

RECURSIVE TrimStart(_)
TrimStart(s) ==
    IF s = <<>> THEN <<>>
    ELSE IF IsSpace(Head(s)) THEN TrimStart(Tail(s))
    ELSE s

RECURSIVE TrimEnd(_)
TrimEnd(s) ==
    IF s = <<>> THEN <<>>
    ELSE IF IsSpace(s[Len(s)]) THEN TrimEnd(SubSeq(s, 1, Len(s) - 1))
    ELSE s

Trim(s) == TrimEnd(TrimStart(s))

StartsWith(s, prefix) ==
    /\ Len(prefix) <= Len(s)
    /\ SubSeq(s, 1, Len(prefix)) = prefix

\* trimmed.replace(/[^A-Za-z0-9._-]+/g, "_"): every maximal run of characters
\* outside the class becomes one "_".  inRun: the previous character was
\* outside the class.
RECURSIVE ReplaceRuns(_, _)
ReplaceRuns(s, inRun) ==
    IF s = <<>> THEN <<>>
    ELSE IF IsAllowedChar(Head(s)) THEN <<Head(s)>> \o ReplaceRuns(Tail(s), FALSE)
    ELSE IF inRun THEN ReplaceRuns(Tail(s), TRUE)
    ELSE <<"_">> \o ReplaceRuns(Tail(s), TRUE)

\* A function that may throw returns [ok |-> TRUE, val |-> v] or
\* [ok |-> FALSE, err |-> message].
Ok(v) == [ok |-> TRUE, val |-> v]
Err(kind, about) == [ok |-> FALSE, err |-> [kind |-> kind, about |-> about]]

\* Mutant: every character outside the class becomes its own "_".
normalizeBranch_EachChar(branch) ==
    LET trimmed == Trim(branch)
        sanitized == [i \in DOMAIN trimmed |->
                         IF IsAllowedChar(trimmed[i]) THEN trimmed[i] ELSE "_"]
    IN  IF trimmed = <<>> THEN Err("Branch name is required.", <<>>)
        ELSE IF sanitized = <<>> \/ sanitized = <<".">> \/ sanitized = <<".", ".">>
             THEN Err("Invalid branch name", branch)
        ELSE Ok(sanitized)

normalizeBranch(branch) ==
    LET trimmed == Trim(branch)
        sanitized == ReplaceRuns(trimmed, FALSE)
    IN  IF trimmed = <<>> THEN Err("Branch name is required.", <<>>)
        ELSE IF sanitized = <<>> \/ sanitized = <<".">> \/ sanitized = <<".", ".">>
             THEN Err("Invalid branch name", branch)
        ELSE Ok(sanitized)

\* ------------------------------------------------------------------ paths

Dirname(p) == IF p = <<>> THEN <<>> ELSE SubSeq(p, 1, Len(p) - 1)

Basename(p) == IF p = <<>> THEN <<>> ELSE p[Len(p)]

\* The normalisation of path.resolve and path.join: "." and empty segments
\* are dropped, ".." removes the segment before it.
RECURSIVE Normalize(_, _)
Normalize(rest, acc) ==
    IF rest = <<>> THEN acc
    ELSE IF Head(rest) = <<>> \/ Head(rest) = <<".">> THEN Normalize(Tail(rest), acc)
    ELSE IF Head(rest) = <<".", ".">> THEN Normalize(Tail(rest), Dirname(acc))
    ELSE Normalize(Tail(rest), Append(acc, Head(rest)))

Resolve(p) == Normalize(p, <<>>)

Join(p, segment) == Normalize(p \o <<segment>>, <<>>)

\* The path as the string the code compares: "/" for the root, else "/a/b".
RECURSIVE PathStr(_)
PathStr(p) ==
    IF p = <<>> THEN <<"/">>
    ELSE IF Len(p) = 1 THEN <<"/">> \o p[1]
    ELSE PathStr(Dirname(p)) \o <<"/">> \o Basename(p)

IsPathPrefix(p, q) == Len(p) <= Len(q) /\ SubSeq(q, 1, Len(p)) = p

\* ------------------------------------------------------------- filesystem

Seg_h == <<"h">>
Seg_t == <<"t">>
Seg_w == <<"w">>
Seg_r == <<"r">>
Seg_o == <<"o">>
Seg_p == <<"p">>
Seg_x == <<"x">>
Seg_worktrees == <<"w", "o", "r", "k", "t", "r", "e", "e", "s">>

\* Where each symbolic link of the model points (a real path).
\*   /t                 -> /h    (HOME reached through a link, as /tmp -> /private/tmp)
\*   /h/worktrees/r__e  -> /w    (a link inside the worktrees root that leaves it)
EscapeLink == <<Seg_h, Seg_worktrees, <<"r", "_", "_", "e">>>>
HomeLink == <<Seg_t>>
LinkTarget(p) == IF p = HomeLink THEN <<Seg_h>> ELSE <<Seg_w>>

\* realpathSync: the links of the path followed, component by component.
RECURSIVE FollowLinks(_, _)
FollowLinks(rest, acc) ==
    IF rest = <<>> THEN acc
    ELSE LET next == Append(acc, Head(rest))
         IN  FollowLinks(Tail(rest), IF next \in symlinks THEN LinkTarget(next) ELSE next)

realpathSync(p) == FollowLinks(p, <<>>)

existsSync(p) == realpathSync(p) \in dirs

\* Mutant: a path that does not exist is returned as resolved, without the
\* walk up to an existing ancestor.
canonicalizePath_NoWalk(value) ==
    LET resolved == Resolve(value)
    IN  IF existsSync(resolved) THEN realpathSync(resolved) ELSE resolved

RECURSIVE canonicalizePath(_)
canonicalizePath(value) ==
    LET resolved == Resolve(value)
        parent == Dirname(resolved)
    IN  IF existsSync(resolved) THEN realpathSync(resolved)
        ELSE IF parent = resolved THEN resolved
        ELSE Join(canonicalizePath(parent), Basename(resolved))

\* Mutant: the separator is not appended to the root before the comparison.
isSafeWorktreePath_NoSeparator(root, target) ==
    LET resolvedRoot == PathStr(canonicalizePath(root))
        resolvedTarget == PathStr(canonicalizePath(target))
    IN  \/ resolvedTarget = resolvedRoot
        \/ StartsWith(resolvedTarget, resolvedRoot)

isSafeWorktreePath(root, target) ==
    LET resolvedRoot == PathStr(canonicalizePath(root))
        resolvedTarget == PathStr(canonicalizePath(target))
    IN  \/ resolvedTarget = resolvedRoot
        \/ StartsWith(resolvedTarget, resolvedRoot \o <<"/">>)

\* lstatSync(<worktreePath>/.git).isDirectory(), false when it does not exist.
isMainWorktree(worktreePath) == realpathSync(Resolve(worktreePath)) \in gitDirs

\* ------------------------------------------------- git, as the code sees it

\* `git worktree list --porcelain`: a sequence of lines, each already split at
\* its first space into key and value (the value of a `worktree` line is the
\* path, of a `branch` line the ref).  A blank line ends each record.
BlankLine == [key |-> "", value |-> <<>>]

RefPrefix == <<"refs/heads/">>

PorcelainOf(w) ==
    <<[key |-> "worktree", value |-> w.path]>>
    \o (IF w.bare THEN <<[key |-> "bare", value |-> <<>>]>>
        ELSE <<[key |-> "HEAD", value |-> <<"sha">>]>>
             \o (IF w.branch = <<>> THEN <<[key |-> "detached", value |-> <<>>]>>
                 ELSE <<[key |-> "branch", value |-> RefPrefix \o w.branch]>>))
    \o <<BlankLine>>

RECURSIVE Porcelain(_)
Porcelain(ws) == IF ws = <<>> THEN <<>> ELSE PorcelainOf(Head(ws)) \o Porcelain(Tail(ws))

\* The worktree of the repository that contains directory d, as git finds it
\* (the nearest enclosing directory with a .git entry): a stray directory, or
\* the deepest listed, existing, non-bare worktree; <<>> when there is none.
Enclosing(d) ==
    {p \in strays \cup {wts[i].path : i \in {j \in DOMAIN wts : ~wts[j].bare}} :
        p \in dirs /\ IsPathPrefix(p, d)}

Deepest(ps) == CHOOSE p \in ps : \A q \in ps : Len(q) <= Len(p)

\* The bare repository's directory encloses cwd at least as closely as `top`.
InBareDirectory(top) ==
    \E i \in DOMAIN wts :
       wts[i].bare /\ IsPathPrefix(wts[i].path, cwd) /\ Len(top) <= Len(wts[i].path)

\* `git rev-parse --show-toplevel` in cwd: fails (<<>>) outside a work tree,
\* the bare repository's own directory included.
GitShowToplevel ==
    IF Enclosing(cwd) = {} THEN <<>>
    ELSE IF InBareDirectory(Deepest(Enclosing(cwd))) THEN <<>>
    ELSE Deepest(Enclosing(cwd))

\* `git rev-parse --absolute-git-dir` succeeds in a work tree and in the bare
\* repository's directory.
GitInsideRepository ==
    \/ Enclosing(cwd) # {}
    \/ \E i \in DOMAIN wts : wts[i].bare /\ IsPathPrefix(wts[i].path, cwd)

\* `git branch --show-current` in cwd: the branch of the enclosing worktree,
\* empty on a detached HEAD.
GitShowCurrent ==
    LET top == GitShowToplevel
        at == {i \in DOMAIN wts :
                 IF top \in strays THEN wts[i].path \notin dirs ELSE wts[i].path = top}
    IN  IF top = <<>> \/ at = {} THEN <<>> ELSE wts[CHOOSE i \in at : TRUE].branch

\* -------------------------------------------------------------- inventory

NewEntry(path) ==
    [path |-> path, head |-> <<>>, branchRef |-> <<>>, branch |-> <<>>,
     detached |-> FALSE, bare |-> FALSE, isMain |-> FALSE, managed |-> FALSE]

\* The loop of parseWorktrees: `current` is <<>> for null, else <<entry>>.
RECURSIVE parseLines(_, _, _)
parseLines(lines, entries, current) ==
    IF lines = <<>> THEN entries \o current
    ELSE LET line == Head(lines)
             rest == Tail(lines)
         IN  IF line.key = "" /\ line.value = <<>> THEN parseLines(rest, entries, current)
             ELSE IF line.key = "worktree"
                  THEN parseLines(rest, entries \o current, <<NewEntry(line.value)>>)
             ELSE IF current = <<>> THEN parseLines(rest, entries, current)
             ELSE IF line.key = "HEAD"
                  THEN parseLines(rest, entries, <<[current[1] EXCEPT !.head = line.value]>>)
             ELSE IF line.key = "branch"
                  THEN parseLines(rest, entries, <<[current[1] EXCEPT !.branchRef = line.value]>>)
             ELSE IF line.key = "detached"
                  THEN parseLines(rest, entries, <<[current[1] EXCEPT !.detached = TRUE]>>)
             ELSE IF line.key = "bare"
                  THEN parseLines(rest, entries, <<[current[1] EXCEPT !.bare = TRUE]>>)
             ELSE parseLines(rest, entries, current)

\* Mutant: the last record is kept only when a blank line ends the text.
parseWorktrees_NeedsBlank(raw) ==
    LET all == parseLines(raw, <<>>, <<>>)
    IN  IF raw # <<>> /\ raw[Len(raw)] = BlankLine THEN all
        ELSE SubSeq(all, 1, Len(all) - 1)

parseWorktrees(raw) == parseLines(raw, <<>>, <<>>)

branchFromRef(ref) ==
    IF ref = <<>> THEN <<>>
    ELSE IF StartsWith(ref, RefPrefix) THEN SubSeq(ref, Len(RefPrefix) + 1, Len(ref))
    ELSE ref

\* Array.prototype.find over indices: the first index satisfying Test, else 0.
FirstIndex(n, Test(_)) ==
    IF \E i \in 1..n : Test(i)
    THEN CHOOSE i \in 1..n : Test(i) /\ \A j \in 1..(i - 1) : ~Test(j)
    ELSE 0

\* Mutant: an entry without a branch is never managed.
isManagedWorktree_NeedsBranch(worktreesRoot, repoName, entry) ==
    LET base == Basename(Resolve(entry.path))
        prefix == repoName \o <<"_", "_">>
        norm == normalizeBranch(entry.branch)
    IN  IF entry.isMain THEN FALSE
        ELSE IF ~isSafeWorktreePath(worktreesRoot, entry.path) THEN FALSE
        ELSE IF ~StartsWith(base, prefix) THEN FALSE
        ELSE IF entry.branch = <<>> THEN FALSE
        ELSE norm.ok /\ base = prefix \o norm.val

\* Mutant: the directory name is compared with the branch as it is, not with
\* its slug.
isManagedWorktree_RawBranch(worktreesRoot, repoName, entry) ==
    LET base == Basename(Resolve(entry.path))
        prefix == repoName \o <<"_", "_">>
    IN  IF entry.isMain THEN FALSE
        ELSE IF ~isSafeWorktreePath(worktreesRoot, entry.path) THEN FALSE
        ELSE IF ~StartsWith(base, prefix) THEN FALSE
        ELSE IF entry.branch = <<>> THEN TRUE
        ELSE base = prefix \o entry.branch

isManagedWorktree(worktreesRoot, repoName, entry) ==
    LET base == Basename(Resolve(entry.path))
        prefix == repoName \o <<"_", "_">>
        norm == normalizeBranch(entry.branch)
    IN  IF entry.isMain THEN FALSE
        ELSE IF ~isSafeWorktreePath(worktreesRoot, entry.path) THEN FALSE
        ELSE IF ~StartsWith(base, prefix) THEN FALSE
        ELSE IF entry.branch = <<>> THEN TRUE
        ELSE norm.ok /\ base = prefix \o norm.val

\* Mutant: the fallback takes the candidate with the shortest path.
resolveCurrentWorktreeEntry_Shortest(worktrees, gitTopLevel) ==
    LET n == Len(worktrees)
        Matches(i) == canonicalizePath(worktrees[i].path) = canonicalizePath(gitTopLevel)
        Candidate(i) == isSafeWorktreePath(worktrees[i].path, Resolve(cwd))
        Length(i) == Len(PathStr(Resolve(worktrees[i].path)))
        Shortest(i) == Candidate(i) /\ \A j \in 1..n : Candidate(j) => Length(i) <= Length(j)
    IN  IF gitTopLevel # <<>> THEN FirstIndex(n, Matches) ELSE FirstIndex(n, Shortest)

\* resolveCurrentWorktreeEntry: the index of the current entry, 0 for undefined.
resolveCurrentWorktreeEntry(worktrees, gitTopLevel) ==
    LET n == Len(worktrees)
        Matches(i) == canonicalizePath(worktrees[i].path) = canonicalizePath(gitTopLevel)
        Candidate(i) == isSafeWorktreePath(worktrees[i].path, Resolve(cwd))
        Length(i) == Len(PathStr(Resolve(worktrees[i].path)))
        \* a stable sort by descending length, then [0]
        Longest(i) == Candidate(i) /\ \A j \in 1..n : Candidate(j) => Length(j) <= Length(i)
    IN  IF gitTopLevel # <<>> THEN FirstIndex(n, Matches) ELSE FirstIndex(n, Longest)

\* The isMain flags of getRepoInfo: each entry's own flag, then the chosen
\* main worktree's flag forced to true.
MainFlag(entry) == entry.bare \/ isMainWorktree(entry.path)

\* Mutant: an entry with a .git directory is preferred to a bare one.
WithIsMain_GitDirFirst(worktrees) ==
    LET flagged == [i \in DOMAIN worktrees |->
                        [worktrees[i] EXCEPT !.isMain = MainFlag(worktrees[i])]]
        gitDir == FirstIndex(Len(flagged), LAMBDA i : isMainWorktree(flagged[i].path))
        found == FirstIndex(Len(flagged), LAMBDA i : flagged[i].isMain)
        mainIdx == IF gitDir # 0 THEN gitDir ELSE IF found = 0 THEN 1 ELSE found
    IN  [worktrees |-> [flagged EXCEPT ![mainIdx].isMain = TRUE], mainIdx |-> mainIdx]

WithIsMain(worktrees) ==
    LET flagged == [i \in DOMAIN worktrees |->
                        [worktrees[i] EXCEPT !.isMain = MainFlag(worktrees[i])]]
        found == FirstIndex(Len(flagged), LAMBDA i : flagged[i].isMain)
        mainIdx == IF found = 0 THEN 1 ELSE found
    IN  [worktrees |-> [flagged EXCEPT ![mainIdx].isMain = TRUE], mainIdx |-> mainIdx]

\* getRepoInfo after the probe, from the text of `git worktree list` and the
\* answer of `git rev-parse --show-toplevel`.  Entries are referred to by index:
\* info.mainWorktree and info.currentWorktreeEntry alias entries of worktrees.
getRepoInfo(rawWorktrees, gitTopLevel) ==
    LET parsed == parseWorktrees(rawWorktrees)
        withBranch == [i \in DOMAIN parsed |->
                          [parsed[i] EXCEPT !.branch = branchFromRef(parsed[i].branchRef)]]
        m == WithIsMain(withBranch)
        repoName == Basename(Resolve(m.worktrees[m.mainIdx].path))
        worktreesRoot == Join(home, Seg_worktrees)
        current == resolveCurrentWorktreeEntry(m.worktrees, gitTopLevel)
    IN  IF Len(parsed) = 0 THEN Err("No git worktrees found.", <<>>)
        ELSE Ok([worktrees |-> [i \in DOMAIN m.worktrees |->
                                  [m.worktrees[i] EXCEPT !.managed =
                                      isManagedWorktree(worktreesRoot, repoName, m.worktrees[i])]],
                 mainWorktree |-> m.mainIdx,
                 currentWorktreeEntry |-> current,
                 currentWorktree |-> IF current = 0 THEN <<>> ELSE m.worktrees[current].path,
                 repoName |-> repoName,
                 worktreesRoot |-> worktreesRoot])

findWorktreeByBranch(inf, branch) ==
    FirstIndex(Len(inf.worktrees), LAMBDA i : inf.worktrees[i].branch = branch)

\* ------------------------------------------------------------- operations

\* resolvePostRemoveCdTarget: `removed` is an index of inf.worktrees.
Master == <<"m", "a", "s", "t", "e", "r">>
MainBranch == <<"m", "a", "i", "n">>

RECURSIVE cdTargetLoop(_, _, _)
cdTargetLoop(inf, removedPath, names) ==
    IF names = <<>> THEN inf.worktrees[inf.mainWorktree].path
    ELSE LET candidate == findWorktreeByBranch(inf, Head(names))
         IN  IF candidate = 0 THEN cdTargetLoop(inf, removedPath, Tail(names))
             ELSE IF canonicalizePath(inf.worktrees[candidate].path) = removedPath
                  THEN cdTargetLoop(inf, removedPath, Tail(names))
             ELSE inf.worktrees[candidate].path

\* Mutant: the candidate that is the removed worktree is not skipped.
resolvePostRemoveCdTarget_NoSkip(inf, removed) ==
    LET master == findWorktreeByBranch(inf, Master)
        main == findWorktreeByBranch(inf, MainBranch)
    IN  IF master # 0 THEN inf.worktrees[master].path
        ELSE IF main # 0 THEN inf.worktrees[main].path
        ELSE inf.worktrees[inf.mainWorktree].path

resolvePostRemoveCdTarget(inf, removed) ==
    cdTargetLoop(inf, canonicalizePath(inf.worktrees[removed].path), <<Master, MainBranch>>)

\* Mutant: the main worktree is not refused.
removeWorktree_NoMainGuard(inf, branch) ==
    LET normalizedBranch == Trim(branch)
        current == inf.currentWorktreeEntry
        entry == findWorktreeByBranch(inf, normalizedBranch)
        isRemovingCurrent ==
            /\ current # 0
            /\ canonicalizePath(inf.worktrees[current].path)
                   = canonicalizePath(inf.worktrees[entry].path)
        cdTarget == IF isRemovingCurrent THEN resolvePostRemoveCdTarget(inf, entry) ELSE <<>>
    IN  IF normalizedBranch = <<>>
        THEN IF current = 0
             THEN Err("Branch name is required when current directory is not a linked worktree.",
                      <<>>)
             ELSE Ok([entry |-> current,
                      cdTarget |-> resolvePostRemoveCdTarget(inf, current),
                      log |-> TRUE])
        ELSE IF entry = 0 THEN Err("No worktree found for branch", normalizedBranch)
        ELSE Ok([entry |-> entry, cdTarget |-> cdTarget, log |-> cdTarget # <<>>])

\* Mutant: without a branch, the worktree on master is removed, not the current one.
removeWorktree_WrongEntry(inf, branch) ==
    LET normalizedBranch == Trim(branch)
        current == inf.currentWorktreeEntry
        entry == findWorktreeByBranch(inf, IF normalizedBranch = <<>> THEN Master
                                            ELSE normalizedBranch)
    IN  IF normalizedBranch = <<>> /\ (current = 0 \/ inf.worktrees[current].isMain)
        THEN Err("Branch name is required when current directory is not a linked worktree.",
                 <<>>)
        ELSE IF entry = 0 THEN Err("No worktree found for branch", normalizedBranch)
        ELSE IF inf.worktrees[entry].isMain
             THEN Err("Refusing to remove main worktree at", inf.worktrees[entry].path)
        ELSE Ok([entry |-> entry, cdTarget |-> resolvePostRemoveCdTarget(inf, entry),
                 log |-> TRUE])

\* removeWorktree up to its `git worktree remove`: the error it throws, or the
\* entry to remove, the cd target (<<>> for undefined) and whether it is logged.
removeWorktree(inf, branch) ==
    LET normalizedBranch == Trim(branch)
        current == inf.currentWorktreeEntry
        entry == findWorktreeByBranch(inf, normalizedBranch)
        isRemovingCurrent ==
            /\ current # 0
            /\ canonicalizePath(inf.worktrees[current].path)
                   = canonicalizePath(inf.worktrees[entry].path)
        cdTarget == IF isRemovingCurrent THEN resolvePostRemoveCdTarget(inf, entry) ELSE <<>>
    IN  IF normalizedBranch = <<>>
        THEN IF current = 0 \/ inf.worktrees[current].isMain
             THEN Err("Branch name is required when current directory is not a linked worktree.",
                      <<>>)
             ELSE Ok([entry |-> current,
                      cdTarget |-> resolvePostRemoveCdTarget(inf, current),
                      log |-> TRUE])
        ELSE IF entry = 0 THEN Err("No worktree found for branch", normalizedBranch)
        ELSE IF inf.worktrees[entry].isMain
             THEN Err("Refusing to remove main worktree at", inf.worktrees[entry].path)
        ELSE Ok([entry |-> entry, cdTarget |-> cdTarget, log |-> cdTarget # <<>>])

\* Mutant: a branch that is already checked out is not refused.
addWorktree_NoExistingCheck(inf, branch) ==
    LET safeBranch == normalizeBranch(branch)
        worktreePath == Join(inf.worktreesRoot, inf.repoName \o <<"_", "_">> \o safeBranch.val)
    IN  IF ~safeBranch.ok THEN safeBranch
        ELSE IF ~isSafeWorktreePath(inf.worktreesRoot, worktreePath)
             THEN Err("Invalid branch name", branch)
        ELSE IF existsSync(worktreePath)
             THEN Err("Worktree path already exists", worktreePath)
        ELSE Ok(worktreePath)

\* Mutant: the target path is not tested for existence.
addWorktree_NoExistsCheck(inf, branch) ==
    LET safeBranch == normalizeBranch(branch)
        worktreePath == Join(inf.worktreesRoot, inf.repoName \o <<"_", "_">> \o safeBranch.val)
        existing == findWorktreeByBranch(inf, branch)
    IN  IF ~safeBranch.ok THEN safeBranch
        ELSE IF ~isSafeWorktreePath(inf.worktreesRoot, worktreePath)
             THEN Err("Invalid branch name", branch)
        ELSE IF existing # 0
             THEN Err("Branch is already checked out at", inf.worktrees[existing].path)
        ELSE Ok(worktreePath)

\* Mutant: the containment guard is left out.
addWorktree_NoContainmentGuard(inf, branch) ==
    LET safeBranch == normalizeBranch(branch)
        worktreePath == Join(inf.worktreesRoot, inf.repoName \o <<"_", "_">> \o safeBranch.val)
        existing == findWorktreeByBranch(inf, branch)
    IN  IF ~safeBranch.ok THEN safeBranch
        ELSE IF existsSync(worktreePath)
             THEN Err("Worktree path already exists", worktreePath)
        ELSE IF existing # 0
             THEN Err("Branch is already checked out at", inf.worktrees[existing].path)
        ELSE Ok(worktreePath)

\* addWorktree up to its mkdirSync: the error it throws, or the target path.
addWorktree(inf, branch) ==
    LET safeBranch == normalizeBranch(branch)
        worktreePath == Join(inf.worktreesRoot, inf.repoName \o <<"_", "_">> \o safeBranch.val)
        existing == findWorktreeByBranch(inf, branch)
    IN  IF ~safeBranch.ok THEN safeBranch
        ELSE IF ~isSafeWorktreePath(inf.worktreesRoot, worktreePath)
             THEN Err("Invalid branch name", branch)
        ELSE IF existsSync(worktreePath)
             THEN Err("Worktree path already exists", worktreePath)
        ELSE IF existing # 0
             THEN Err("Branch is already checked out at", inf.worktrees[existing].path)
        ELSE Ok(worktreePath)

\* resolveMergeTargetWorktree with an explicit branch.
resolveMergeTargetWorktree(inf, branch) ==
    LET requestedBranch == Trim(branch)
        entry == findWorktreeByBranch(inf, requestedBranch)
    IN  IF entry = 0 THEN Err("No worktree found for branch", requestedBranch)
        ELSE Ok(entry)

\* The options of selectMergeWorktreeInteractive that are not disabled.
MergeableOptions(inf, currentBranch) ==
    {i \in DOMAIN inf.worktrees :
        /\ inf.worktrees[i].branch # <<>>
        /\ ~(currentBranch # <<>> /\ currentBranch = inf.worktrees[i].branch)}

resolveSelectedWorktreeEntry(inf, selection) ==
    FirstIndex(Len(inf.worktrees), LAMBDA i : inf.worktrees[i].path = selection)

\* Mutant: merging a branch into itself is not refused.
mergeGuards_NoSelfCheck(inf, target, currentBranch) ==
    LET targetBranch == inf.worktrees[target].branch
    IN  IF targetBranch = <<>>
        THEN Err("Selected worktree does not have a branch", inf.worktrees[target].path)
        ELSE Ok(targetBranch)

\* The guards of mergeBranchFromWorktree between the target's resolution and
\* the first confirmation: the error thrown, or the target's branch.
mergeGuards(inf, target, currentBranch) ==
    LET targetBranch == inf.worktrees[target].branch
    IN  IF targetBranch = <<>>
        THEN Err("Selected worktree does not have a branch", inf.worktrees[target].path)
        ELSE IF currentBranch # <<>> /\ currentBranch = targetBranch
             THEN Err("Cannot merge branch into itself", targetBranch)
        ELSE Ok(targetBranch)

\* Mutant: only stdin is tested.
confirmDefaultYes_StdinOnly(answer) ==
    IF ~stdinTTY THEN [prompted |-> FALSE, result |-> "yes"]
    ELSE [prompted |-> TRUE, result |-> answer]

\* Mutant: without a TTY the confirmation returns false.
confirmDefaultYes_DefaultNo(answer) ==
    IF ~stdinTTY \/ ~stdoutTTY THEN [prompted |-> FALSE, result |-> "no"]
    ELSE [prompted |-> TRUE, result |-> answer]

\* confirmDefaultYes: `answer` is what the user does when prompted.
confirmDefaultYes(answer) ==
    IF ~stdinTTY \/ ~stdoutTTY THEN [prompted |-> FALSE, result |-> "yes"]
    ELSE [prompted |-> TRUE, result |-> answer]

\* Mutant: the main worktree is not refused.
cleanupMergedWorktree_NoMainGuard(inf, entry) ==
    IF inf.worktrees[entry].branch = <<>> THEN "return" ELSE "run"

\* cleanupMergedWorktree before its commands: "return", "throw" or "run".
cleanupMergedWorktree(inf, entry) ==
    IF inf.worktrees[entry].branch = <<>> THEN "return"
    ELSE IF inf.worktrees[entry].isMain THEN "throw"
    ELSE "run"

\* requireEnv: `value` is process.env[name], <<>> when unset.
requireEnv(name, value) ==
    IF value = <<>> THEN Err(name, <<>>) ELSE Ok(value)

\* String.prototype.padEnd with spaces.
PadEnd(s, n) == s \o [i \in 1..(n - Len(s)) |-> " "]

Detached == <<"(", "d", "e", "t", "a", "c", "h", "e", "d", ")">>
TagMain == <<"m", "a", "i", "n">>
TagPlain == <<"p", "l", "a", "i", "n">>

\* `${branch} (${tags.join(", ")})` with the one tag of listWorktrees.
Tagged(branch, tag) == branch \o <<" ", "(">> \o tag \o <<")">>

\* Mutant: an unmanaged entry gets no tag.
listLabel_NoPlain(entry) ==
    LET branch == IF entry.branch = <<>> THEN Detached ELSE entry.branch
    IN  IF entry.isMain THEN Tagged(branch, TagMain) ELSE branch

\* The label of a row of listWorktrees.
listLabel(entry) ==
    LET branch == IF entry.branch = <<>> THEN Detached ELSE entry.branch
    IN  IF entry.isMain THEN Tagged(branch, TagMain)
        ELSE IF ~entry.managed THEN Tagged(branch, TagPlain)
        ELSE branch

\* rows.reduce((max, row) => Math.max(max, row.label.length), 0)
RECURSIVE nameWidth(_)
nameWidth(labels) ==
    IF labels = <<>> THEN 0
    ELSE LET rest == nameWidth(Tail(labels))
         IN  IF Len(Head(labels)) > rest THEN Len(Head(labels)) ELSE rest

\* listWorktrees: the lines it prints (joined by newlines in one console.log).
listWorktrees(inf) ==
    LET labels == [i \in DOMAIN inf.worktrees |-> listLabel(inf.worktrees[i])]
    IN  [i \in DOMAIN inf.worktrees |->
            PadEnd(labels[i], nameWidth(labels) + 2) \o PathStr(inf.worktrees[i].path)]

\* resolveWorktreePath, for a branch some entry has (else it throws).
resolveWorktreePath(inf, branch) == inf.worktrees[findWorktreeByBranch(inf, branch)].path

\* resolveSelectedWorktree, for a selection that is the path of an entry.
resolveSelectedWorktree(inf, selection) ==
    LET entry == inf.worktrees[resolveSelectedWorktreeEntry(inf, selection)]
    IN  IF entry.branch # <<>> THEN resolveWorktreePath(inf, entry.branch) ELSE entry.path

shouldSwitchToSelectedWorktree == stdinTTY /\ stdoutTTY

\* ----------------------------------------------------------- the repository

FX == <<"f", "/", "x">>
F_X == <<"f", "_", "x">>
Dev == <<"d">>
BranchE == <<"e">>

PMain == <<Seg_w, Seg_r>>
POther == <<Seg_w, Seg_o>>
PStray == <<Seg_w, Seg_r, Seg_p>>
POutside == <<Seg_x>>
PHome == <<Seg_h>>
PWorktrees == <<Seg_h, Seg_worktrees>>
Managed(slug) == <<Seg_h, Seg_worktrees, <<"r", "_", "_">> \o slug>>

EnvName == <<".", "e", "n", "v">>
EnvLocalName == <<".", "e", "n", "v", ".", "l">>
ReadmeName == <<"r", "m">>

WT(path, branch, bare) == [path |-> path, branch |-> branch, bare |-> bare]

BaseDirs == {<<>>, <<Seg_w>>, PHome, PWorktrees, POutside}

\* The repositories the model starts from.
\*   1  main on master, a managed worktree on f/x, a plain one on f_x; HOME may be a link
\*   2  main on d, managed worktrees on master and on main
\*   3  a bare repository with a managed worktree on f/x and a detached one
\*   4  main with .git as a file (separate git dir), a plain worktree on main whose
\*      directory was moved to /w/r/p, and a link in the worktrees root that leaves it
\*   5  a listed worktree whose directory was re-created as a repository of its own
\*   6  a bare repository with such a worktree, inside a worktree of its own (/w)
Scenarios ==
    { [wts |-> <<WT(PMain, Master, FALSE), WT(Managed(F_X), FX, FALSE), WT(POther, F_X, FALSE)>>,
       dirs |-> BaseDirs \cup {PMain, Managed(F_X), POther},
       gitDirs |-> {PMain},
       branches |-> {Master, FX, F_X, Dev},
       symlinks |-> {HomeLink},
       files |-> {<<PMain, EnvName>>, <<PMain, EnvLocalName>>, <<PMain, ReadmeName>>},
       strays |-> {}],
      [wts |-> <<WT(PMain, Dev, FALSE), WT(Managed(Master), Master, FALSE),
                 WT(Managed(MainBranch), MainBranch, FALSE)>>,
       dirs |-> BaseDirs \cup {PMain, Managed(Master), Managed(MainBranch)},
       gitDirs |-> {PMain},
       branches |-> {Master, MainBranch, Dev},
       symlinks |-> {},
       files |-> {<<PMain, EnvName>>},
       strays |-> {}],
      [wts |-> <<WT(PMain, <<>>, TRUE), WT(Managed(F_X), FX, FALSE),
                 WT(Managed(<<"k">>), <<>>, FALSE)>>,
       dirs |-> BaseDirs \cup {PMain, Managed(F_X), Managed(<<"k">>)},
       gitDirs |-> {},
       branches |-> {Master, FX},
       symlinks |-> {HomeLink},
       files |-> {},
       strays |-> {}],
      [wts |-> <<WT(PMain, Master, FALSE), WT(POther, MainBranch, FALSE)>>,
       dirs |-> BaseDirs \cup {PMain, PStray},
       gitDirs |-> {},
       branches |-> {Master, MainBranch},
       symlinks |-> {EscapeLink},
       files |-> {<<PMain, EnvName>>},
       strays |-> {PStray}],
      [wts |-> <<WT(PMain, Master, FALSE), WT(POther, Dev, FALSE)>>,
       dirs |-> BaseDirs \cup {PMain, POther},
       gitDirs |-> {PMain, POther},
       branches |-> {Master, Dev},
       symlinks |-> {},
       files |-> {<<PMain, ReadmeName>>},
       strays |-> {}],
      [wts |-> <<WT(PMain, <<>>, TRUE), WT(POther, Dev, FALSE), WT(<<Seg_w>>, FX, FALSE)>>,
       dirs |-> BaseDirs \cup {PMain, POther},
       gitDirs |-> {POther},
       branches |-> {Master, Dev, FX},
       symlinks |-> {},
       files |-> {},
       strays |-> {}] }

\* argv.branch: absent, blank, or a branch name.
Args == {<<>>, <<" ">>, Master, MainBranch, FX, F_X, Dev, BranchE, <<".", ".">>}

Commands == {"add", "remove", "merge", "list", "select"}

\* What the user types at the picker's `New worktree branch` prompt (the
\* prompt's validation refuses a blank value).
TextAnswers == {BranchE, FX}

\* The directories the command can be run from: a worktree of this
\* repository (not one that became a repository of its own), the bare
\* directory, a moved worktree, or a directory outside the repository.
CwdChoices ==
    {wts[i].path : i \in {j \in DOMAIN wts :
                              wts[j].path \in dirs /\ (j = 1 \/ wts[j].path \notin gitDirs)}}
    \cup strays \cup {POutside}

NoInfo ==
    [worktrees |-> <<>>, mainWorktree |-> 0, currentWorktreeEntry |-> 0,
     currentWorktree |-> <<>>, repoName |-> <<>>, worktreesRoot |-> <<>>]

NoLocal ==
    [target |-> 0, currentBranch |-> <<>>, targetBranch |-> <<>>,
     worktreePath |-> <<>>, hasBranch |-> FALSE, selected |-> <<>>]

Init ==
    /\ \E s \in Scenarios :
          /\ wts = s.wts
          /\ dirs = s.dirs
          /\ gitDirs = s.gitDirs
          /\ branches = s.branches
          /\ symlinks = s.symlinks
          /\ files = s.files
          /\ strays = s.strays
    /\ runs = 0
    /\ pc = "idle"
    /\ cmd = "none"
    /\ arg = <<>>
    /\ cwd = POutside
    /\ home = PHome
    /\ stdinTTY = TRUE
    /\ stdoutTTY = TRUE
    /\ info = NoInfo
    /\ local = NoLocal
    /\ calls = <<>>
    /\ prompts = <<>>
    /\ made = {}
    /\ stdout = <<>>
    /\ stderr = <<>>
    /\ exitCode = -1

\* ------------------------------------------------------------------ steps

Call(name, args, ok) == [cmd |-> name, args |-> args, ok |-> ok]

\* runOrExit's catch: the message on the error stream, exit status 1.
Fail(err) ==
    /\ stderr' = Append(stderr, err)
    /\ exitCode' = 1
    /\ pc' = "done"

\* The handler returned, or process.exit(0) after a cancelled prompt.
Exit0 ==
    /\ exitCode' = 0
    /\ pc' = "done"

ExternalFailure(name) == [kind |-> "command failed", about |-> <<name>>]

\* What the runtime prints for an error nothing catches: the message and the
\* stack trace under it.
Uncaught(err) == <<err, [kind |-> "stack trace", about |-> <<>>]>>

\* A new invocation: `git-worktree [<cmd> [branch]]` in directory cwd.  The
\* module's first statement, `const home = requireEnv("HOME")`, runs before
\* runCli and outside runOrExit.
Start ==
    /\ pc = "idle"
    /\ runs < MaxRuns
    /\ runs' = runs + 1
    /\ \E c \in Commands, a \in Args, d \in CwdChoices, h \in {PHome, HomeLink, <<>>},
          i \in BOOLEAN, o \in BOOLEAN :
          /\ h = HomeLink => HomeLink \in symlinks
          /\ c = "add" => a # <<>>
          /\ c \in {"list", "select"} => a = <<>>
          /\ c \notin {"merge", "select"} => i /\ o
          /\ cmd' = c
          /\ arg' = a
          /\ cwd' = d
          /\ home' = h
          /\ stdinTTY' = i
          /\ stdoutTTY' = o
          /\ IF requireEnv("HOME is not set.", h).ok
             THEN /\ pc' = "getRepoInfo"
                  /\ UNCHANGED <<stderr, exitCode>>
             ELSE /\ pc' = "done"
                  /\ stderr' = stderr \o Uncaught(requireEnv("HOME is not set.", h).err)
                  /\ exitCode' = 1
    /\ UNCHANGED <<world, info, local, calls, prompts, made, stdout>>

\* The process has exited: nothing of it remains but what it did to the
\* repository and the filesystem.
Finish ==
    /\ pc = "done"
    /\ pc' = "idle"
    /\ cmd' = "none"
    /\ arg' = <<>>
    /\ cwd' = POutside
    /\ home' = PHome
    /\ stdinTTY' = TRUE
    /\ stdoutTTY' = TRUE
    /\ info' = NoInfo
    /\ local' = NoLocal
    /\ calls' = <<>>
    /\ prompts' = <<>>
    /\ made' = {}
    /\ stdout' = <<>>
    /\ stderr' = <<>>
    /\ exitCode' = -1
    /\ UNCHANGED <<world, runs>>

\* Mutant: `git worktree list` runs before the probe.
GetRepoInfo_ListFirst ==
    /\ pc = "getRepoInfo"
    /\ UNCHANGED runs
    /\ UNCHANGED <<world, cmd, arg, cwd, home, stdinTTY, stdoutTTY, local, prompts, made, stdout>>
    /\ LET probe == Call("git rev-parse --absolute-git-dir", <<>>, GitInsideRepository)
           top == GitShowToplevel
           r == getRepoInfo(Porcelain(wts), top)
       IN  IF ~probe.ok
           THEN /\ calls' = calls \o <<Call("git worktree list", <<>>, FALSE), probe>>
                /\ info' = info
                /\ Fail(Err("Current directory is not inside a git repository.", <<>>).err)
           ELSE /\ calls' = calls \o <<Call("git worktree list", <<>>, TRUE), probe,
                                       Call("git rev-parse --show-toplevel", <<>>, top # <<>>)>>
                /\ IF r.ok
                   THEN /\ info' = r.val
                        /\ pc' = cmd
                        /\ UNCHANGED <<stderr, exitCode>>
                   ELSE /\ info' = info
                        /\ Fail(r.err)

\* getRepoInfo: the probe, `git worktree list --porcelain` (which may fail),
\* `git rev-parse --show-toplevel`, and the inventory.
GetRepoInfo ==
    /\ pc = "getRepoInfo"
    /\ UNCHANGED runs
    /\ UNCHANGED <<world, cmd, arg, cwd, home, stdinTTY, stdoutTTY, local, prompts, made, stdout>>
    /\ LET probe == Call("git rev-parse --absolute-git-dir", <<>>, GitInsideRepository)
           top == GitShowToplevel
           r == getRepoInfo(Porcelain(wts), top)
       IN  IF ~probe.ok
           THEN /\ calls' = Append(calls, probe)
                /\ info' = info
                /\ Fail(Err("Current directory is not inside a git repository.", <<>>).err)
           ELSE \E listed \in BOOLEAN :
                  IF ~listed
                  THEN /\ calls' = calls \o <<probe, Call("git worktree list", <<>>, FALSE)>>
                       /\ info' = info
                       /\ Fail(ExternalFailure("git worktree list"))
                  ELSE /\ calls' = calls \o <<probe, Call("git worktree list", <<>>, TRUE),
                                              Call("git rev-parse --show-toplevel", <<>>, top # <<>>)>>
                       /\ IF r.ok
                          THEN /\ info' = r.val
                               /\ pc' = cmd
                               /\ UNCHANGED <<stderr, exitCode>>
                          ELSE /\ info' = info
                               /\ Fail(r.err)

\* What git does ----------------------------------------------------------

Under(path, d) == IsPathPrefix(path, d)

\* `git worktree remove <path>` can succeed for a listed linked worktree (never
\* for the main one, listed first, nor for one that holds what git does not
\* track: another worktree, the repository); it then deletes the directory and
\* the record.
CanRemove(path) ==
    /\ \E i \in DOMAIN wts : i > 1 /\ wts[i].path = path
    /\ \A i \in DOMAIN wts : wts[i].path = path \/ ~Under(path, wts[i].path)

GitWorktreeRemove(path) ==
    /\ wts' = SelectSeq(wts, LAMBDA w : w.path # path)
    /\ dirs' = {d \in dirs : ~Under(path, d)}
    /\ gitDirs' = {d \in gitDirs : ~Under(path, d)}
    /\ files' = {f \in files : ~Under(path, f[1])}
    /\ strays' = IF path \in dirs THEN strays ELSE {}
    /\ UNCHANGED <<branches, symlinks>>

\* git-check-ref-format, on the characters of the model.
ValidRefName(b) ==
    /\ b # <<>>
    /\ \A i \in DOMAIN b : b[i] \in Letters \cup {"0", "1", "/", "_", "-", "."}
    /\ b[1] \notin {"-", ".", "/"}
    /\ b[Len(b)] \notin {".", "/"}
    /\ \A i \in 1..(Len(b) - 1) : <<b[i], b[i + 1]>> \notin {<<".", ".">>, <<"/", "/">>, <<"/", ".">>}

\* `git worktree add [-b] <branch> <path>` can succeed when the branch name is a
\* valid ref, no worktree has the branch checked out and the path is free.  The
\* record holds the real path.
CanAdd(path, branch) ==
    /\ ValidRefName(branch)
    /\ \A i \in DOMAIN wts : wts[i].branch # branch
    /\ \A i \in DOMAIN wts : wts[i].path # canonicalizePath(path)
    /\ ~existsSync(path)
    /\ existsSync(Dirname(path))

GitWorktreeAdd(path, branch) ==
    /\ wts' = Append(wts, WT(canonicalizePath(path), branch, FALSE))
    /\ dirs' = dirs \cup {canonicalizePath(path)}
    /\ branches' = branches \cup {branch}
    /\ UNCHANGED <<gitDirs, symlinks, files, strays>>

\* `git branch -d <branch>` can succeed when the branch exists and is checked
\* out in no worktree.
CanDeleteBranch(branch) ==
    /\ branch \in branches
    /\ \A i \in DOMAIN wts : wts[i].branch # branch

\* remove ---------------------------------------------------------------

RemoveWorktree ==
    /\ pc = "remove"
    /\ UNCHANGED runs
    /\ UNCHANGED <<cmd, arg, cwd, home, stdinTTY, stdoutTTY, info, local, prompts, made>>
    /\ LET plan == removeWorktree(info, arg)
           path == info.worktrees[plan.val.entry].path
       IN  IF ~plan.ok
           THEN /\ Fail(plan.err)
                /\ UNCHANGED <<world, calls, stdout>>
           ELSE \E ok \in BOOLEAN :
                  /\ ok => CanRemove(path)
                  /\ calls' = Append(calls, Call("git worktree remove", <<path>>, ok))
                  /\ IF ok
                     THEN /\ GitWorktreeRemove(path)
                          /\ stdout' = IF plan.val.log THEN Append(stdout, plan.val.cdTarget)
                                        ELSE stdout
                          /\ Exit0
                          /\ UNCHANGED stderr
                     ELSE /\ Fail(ExternalFailure("git worktree remove"))
                          /\ UNCHANGED <<world, stdout>>

\* add ------------------------------------------------------------------

RECURSIVE Ancestors(_)
Ancestors(p) == IF p = <<>> THEN {<<>>} ELSE {p} \cup Ancestors(Dirname(p))

\* mkdirSync(dir, { recursive: true }): the directories it creates.
mkdirSync(dir) == {d \in Ancestors(canonicalizePath(dir)) : d \notin dirs}

\* branchExists: `git show-ref --verify refs/heads/<branch>`.
branchExists(branch) == branch \in branches

\* addWorktree's guards, mkdirSync and branchExists.
AddWorktreeGuards ==
    /\ pc = "add"
    /\ UNCHANGED runs
    /\ UNCHANGED <<cmd, arg, cwd, home, stdinTTY, stdoutTTY, info, prompts, stdout>>
    /\ UNCHANGED <<wts, gitDirs, branches, symlinks, files, strays>>
    /\ LET plan == addWorktree(info, arg)
       IN  IF ~plan.ok
           THEN /\ Fail(plan.err)
                /\ UNCHANGED <<dirs, made, local, calls>>
           ELSE /\ made' = mkdirSync(Dirname(plan.val))
                /\ dirs' = dirs \cup mkdirSync(Dirname(plan.val))
                /\ calls' = Append(calls, Call("git show-ref", <<arg>>, branchExists(arg)))
                /\ local' = [local EXCEPT !.worktreePath = plan.val,
                                            !.hasBranch = branchExists(arg)]
                /\ pc' = "add_git"
                /\ UNCHANGED <<stderr, exitCode>>

\* runCommand("git", ["worktree", "add", ...]).
AddWorktreeGit ==
    /\ pc = "add_git"
    /\ UNCHANGED runs
    /\ UNCHANGED <<cmd, arg, cwd, home, stdinTTY, stdoutTTY, info, local, prompts, made, stdout>>
    /\ LET args == IF local.hasBranch THEN <<local.worktreePath, arg>>
                   ELSE <<<<"-b">>, arg, local.worktreePath>>
       IN  \E ok \in BOOLEAN :
             /\ ok => CanAdd(local.worktreePath, arg)
             /\ calls' = Append(calls, Call("git worktree add", args, ok))
             /\ IF ok
                THEN /\ GitWorktreeAdd(local.worktreePath, arg)
                     /\ pc' = "add_env"
                     /\ UNCHANGED <<stderr, exitCode>>
                ELSE /\ Fail(ExternalFailure("git worktree add"))
                     /\ UNCHANGED world

\* Mutant: every file of the directory is copied, whatever its name.
copyEnvFiles_AllFiles(fromDir, toDir) ==
    {<<realpathSync(Resolve(toDir)), f[2]>> :
        f \in {g \in files : g[1] = realpathSync(Resolve(fromDir))}}

\* copyEnvFiles(info.mainWorktree.path, worktreePath).
copyEnvFiles(fromDir, toDir) ==
    {<<realpathSync(Resolve(toDir)), f[2]>> :
        f \in {g \in files : g[1] = realpathSync(Resolve(fromDir)) /\ StartsWith(g[2], EnvName)}}

AddWorktreeCopyEnv ==
    /\ pc = "add_env"
    /\ UNCHANGED runs
    /\ files' = files \cup copyEnvFiles(info.worktrees[info.mainWorktree].path,
                                          local.worktreePath)
    /\ pc' = "add_install"
    /\ UNCHANGED <<wts, dirs, gitDirs, branches, symlinks, strays>>
    /\ UNCHANGED <<cmd, arg, cwd, home, stdinTTY, stdoutTTY, info, local, calls, prompts,
                   made, stdout, stderr, exitCode>>

\* runCommand("bun", ["install"]) in the new worktree, then the handler's
\* `Worktree ready: <path>`.
AddWorktreeInstall ==
    /\ pc = "add_install"
    /\ UNCHANGED runs
    /\ UNCHANGED <<world, cmd, arg, cwd, home, stdinTTY, stdoutTTY, info, prompts, made>>
    /\ \E ok \in BOOLEAN :
          /\ calls' = Append(calls, Call("bun install", <<local.worktreePath>>, ok))
          /\ IF ~ok
             THEN /\ Fail(ExternalFailure("bun install"))
                  /\ UNCHANGED <<stdout, local>>
             ELSE IF cmd = "add"
             THEN /\ stdout' = Append(stdout, local.worktreePath)
                  /\ Exit0
                  /\ UNCHANGED <<stderr, local>>
             ELSE /\ local' = [local EXCEPT !.selected = local.worktreePath]
                  /\ pc' = "switch"
                  /\ UNCHANGED <<stdout, stderr, exitCode>>

\* list -----------------------------------------------------------------

\* Mutant: list first prunes the records of worktrees whose directory is gone.
ListWorktrees_Prunes ==
    /\ pc = "list"
    /\ UNCHANGED runs
    /\ wts' = SelectSeq(wts, LAMBDA w : w.path \in dirs)
    /\ stdout' = stdout \o listWorktrees(info)
    /\ Exit0
    /\ UNCHANGED <<dirs, gitDirs, branches, symlinks, files, strays>>
    /\ UNCHANGED <<cmd, arg, cwd, home, stdinTTY, stdoutTTY, info, local, calls,
                   prompts, made, stderr>>

ListWorktrees ==
    /\ pc = "list"
    /\ UNCHANGED runs
    /\ stdout' = stdout \o listWorktrees(info)
    /\ Exit0
    /\ UNCHANGED <<world, cmd, arg, cwd, home, stdinTTY, stdoutTTY, info, local, calls,
                   prompts, made, stderr>>

\* merge ----------------------------------------------------------------

Prompt(kind, answer) == [kind |-> kind, answer |-> answer]

\* getCurrentBranch: runCommand("git", ["branch", "--show-current"]).
MergeGetCurrentBranch ==
    /\ pc = "merge"
    /\ UNCHANGED runs
    /\ UNCHANGED <<world, cmd, arg, cwd, home, stdinTTY, stdoutTTY, info, prompts, made, stdout>>
    /\ \E ok \in BOOLEAN :
          /\ calls' = Append(calls, Call("git branch --show-current", <<>>, ok))
          /\ IF ok
             THEN /\ local' = [local EXCEPT !.currentBranch = Trim(GitShowCurrent)]
                  /\ pc' = "merge_target"
                  /\ UNCHANGED <<stderr, exitCode>>
             ELSE /\ Fail(ExternalFailure("git branch --show-current"))
                  /\ UNCHANGED local

\* Mutant: a detached HEAD is merged into without confirmation.
needsContinueConfirm_NotDetached(currentBranch) ==
    currentBranch # <<>> /\ currentBranch # Master

\* `if (currentBranch !== "master")`: the merge is confirmed first.
needsContinueConfirm(currentBranch) == currentBranch # Master

\* After the target is resolved: the guards, then either the confirmation
\* (current branch not master) or the merge.
MergeTargetResolved(target) ==
    LET g == mergeGuards(info, target, local.currentBranch)
    IN  IF ~g.ok
        THEN /\ Fail(g.err)
             /\ UNCHANGED local
        ELSE /\ local' = [local EXCEPT !.target = target, !.targetBranch = g.val]
             /\ pc' = IF needsContinueConfirm(local.currentBranch) THEN "merge_confirm"
                     ELSE "merge_git"
             /\ UNCHANGED <<stderr, exitCode>>

\* resolveMergeTargetWorktree: by the branch given, else by the picker.
MergeResolveTarget ==
    /\ pc = "merge_target"
    /\ UNCHANGED runs
    /\ UNCHANGED <<world, cmd, arg, cwd, home, stdinTTY, stdoutTTY, info, calls, made, stdout>>
    /\ IF Trim(arg) # <<>>
       THEN LET r == resolveMergeTargetWorktree(info, arg)
            IN  /\ UNCHANGED prompts
                /\ IF r.ok THEN MergeTargetResolved(r.val)
                   ELSE Fail(r.err) /\ UNCHANGED local
       ELSE IF ~stdinTTY
            THEN /\ Fail(Err("Interactive mode requires a TTY.", <<>>).err)
                 /\ UNCHANGED <<local, prompts>>
       ELSE IF MergeableOptions(info, local.currentBranch) = {}
            THEN /\ Fail(Err("No mergeable worktree branches found.", <<>>).err)
                 /\ UNCHANGED <<local, prompts>>
       ELSE \/ /\ prompts' = Append(prompts, Prompt("select", "cancel"))
               /\ Exit0
               /\ UNCHANGED <<local, stderr>>
            \/ \E i \in MergeableOptions(info, local.currentBranch) :
                  /\ prompts' = Append(prompts, Prompt("select", "picked"))
                  /\ MergeTargetResolved(
                         resolveSelectedWorktreeEntry(info, info.worktrees[i].path))

\* Mutant: a cancelled confirmation counts as yes.
Confirm_CancelContinues(kind, yesPc) ==
    \E answer \in {"yes", "no", "cancel"} :
       LET c == confirmDefaultYes(answer)
       IN  /\ prompts' = IF c.prompted THEN Append(prompts, Prompt(kind, answer)) ELSE prompts
           /\ IF c.result \in {"yes", "cancel"}
              THEN pc' = yesPc /\ UNCHANGED exitCode
              ELSE Exit0

\* The outcome of one confirmDefaultYes: yes, no or (cancelled) process.exit(0).
Confirm(kind, yesPc) ==
    \E answer \in {"yes", "no", "cancel"} :
       LET c == confirmDefaultYes(answer)
       IN  /\ prompts' = IF c.prompted THEN Append(prompts, Prompt(kind, answer)) ELSE prompts
           /\ IF c.result = "yes"
              THEN pc' = yesPc /\ UNCHANGED exitCode
              ELSE Exit0

\* `You are on <source>, not master. Continue merging <targetBranch>?`
MergeConfirmContinue ==
    /\ pc = "merge_confirm"
    /\ UNCHANGED runs
    /\ Confirm("continue", "merge_git")
    /\ UNCHANGED <<world, cmd, arg, cwd, home, stdinTTY, stdoutTTY, info, local, calls,
                   made, stdout, stderr>>

\* Mutant: a failed `git merge` does not stop the command.
MergeGit_IgnoresFailure ==
    /\ pc = "merge_git"
    /\ UNCHANGED runs
    /\ UNCHANGED <<world, cmd, arg, cwd, home, stdinTTY, stdoutTTY, info, local, prompts,
                   made, stdout>>
    /\ \E ok \in BOOLEAN :
          /\ calls' = Append(calls, Call("git merge", <<local.targetBranch>>, ok))
          /\ IF info.worktrees[local.target].isMain THEN Exit0 /\ UNCHANGED stderr
             ELSE pc' = "cleanup_confirm" /\ UNCHANGED <<stderr, exitCode>>

\* runCommand("git", ["merge", targetBranch]); stop when the target is main.
MergeGit ==
    /\ pc = "merge_git"
    /\ UNCHANGED runs
    /\ UNCHANGED <<world, cmd, arg, cwd, home, stdinTTY, stdoutTTY, info, local, prompts,
                   made, stdout>>
    /\ \E ok \in BOOLEAN :
          /\ calls' = Append(calls, Call("git merge", <<local.targetBranch>>, ok))
          /\ IF ~ok THEN Fail(ExternalFailure("git merge"))
             ELSE IF info.worktrees[local.target].isMain THEN Exit0 /\ UNCHANGED stderr
             ELSE pc' = "cleanup_confirm" /\ UNCHANGED <<stderr, exitCode>>

\* `Remove merged branch <targetBranch> and worktree <path>?`
MergeConfirmCleanup ==
    /\ pc = "cleanup_confirm"
    /\ UNCHANGED runs
    /\ Confirm("cleanup", "cleanup_remove")
    /\ UNCHANGED <<world, cmd, arg, cwd, home, stdinTTY, stdoutTTY, info, local, calls,
                   made, stdout, stderr>>

\* Mutant: a failed `git worktree remove` does not stop the cleanup.
CleanupRemove_IgnoresFailure ==
    /\ pc = "cleanup_remove"
    /\ UNCHANGED runs
    /\ UNCHANGED <<cmd, arg, cwd, home, stdinTTY, stdoutTTY, info, local, prompts, made, stdout>>
    /\ UNCHANGED <<stderr, exitCode>>
    /\ pc' = "cleanup_branch"
    /\ LET entry == info.worktrees[local.target]
       IN  \E ok \in BOOLEAN :
             /\ ok => CanRemove(entry.path)
             /\ calls' = Append(calls, Call("git worktree remove", <<entry.path>>, ok))
             /\ IF ok THEN GitWorktreeRemove(entry.path) ELSE UNCHANGED world

\* cleanupMergedWorktree: its guards and `git worktree remove`.
CleanupRemove ==
    /\ pc = "cleanup_remove"
    /\ UNCHANGED runs
    /\ UNCHANGED <<cmd, arg, cwd, home, stdinTTY, stdoutTTY, info, local, prompts, made, stdout>>
    /\ LET entry == info.worktrees[local.target]
           guard == cleanupMergedWorktree(info, local.target)
       IN  IF guard = "return"
           THEN Exit0 /\ UNCHANGED <<world, calls, stderr>>
           ELSE IF guard = "throw"
           THEN /\ Fail(Err("Refusing to remove main worktree at", entry.path).err)
                /\ UNCHANGED <<world, calls>>
           ELSE \E ok \in BOOLEAN :
                  /\ ok => CanRemove(entry.path)
                  /\ calls' = Append(calls, Call("git worktree remove", <<entry.path>>, ok))
                  /\ IF ok
                     THEN /\ GitWorktreeRemove(entry.path)
                          /\ pc' = "cleanup_branch"
                          /\ UNCHANGED <<stderr, exitCode>>
                     ELSE /\ Fail(ExternalFailure("git worktree remove"))
                          /\ UNCHANGED world

\* cleanupMergedWorktree: `git branch -d`.
CleanupDeleteBranch ==
    /\ pc = "cleanup_branch"
    /\ UNCHANGED runs
    /\ UNCHANGED <<cmd, arg, cwd, home, stdinTTY, stdoutTTY, info, local, prompts, made, stdout>>
    /\ UNCHANGED <<wts, dirs, gitDirs, symlinks, files, strays>>
    /\ LET branch == info.worktrees[local.target].branch
       IN  \E ok \in BOOLEAN :
             /\ ok => CanDeleteBranch(branch)
             /\ calls' = Append(calls, Call("git branch -d", <<branch>>, ok))
             /\ IF ok
                THEN /\ branches' = branches \ {branch}
                     /\ Exit0
                     /\ UNCHANGED stderr
                ELSE /\ Fail(ExternalFailure("git branch -d"))
                     /\ UNCHANGED branches

\* the picker ($0) ------------------------------------------------------

\* selectWorktreeInteractive up to the answer of `Select a worktree`.
SelectWorktree ==
    /\ pc = "select"
    /\ UNCHANGED runs
    /\ UNCHANGED <<world, cmd, arg, cwd, home, stdinTTY, stdoutTTY, info, calls, made, stdout>>
    /\ IF ~stdinTTY
       THEN /\ Fail(Err("Interactive mode requires a TTY.", <<>>).err)
            /\ UNCHANGED <<local, prompts>>
       ELSE \/ /\ prompts' = Append(prompts, Prompt("pick", "cancel"))
               /\ Exit0
               /\ UNCHANGED <<local, stderr>>
            \/ /\ prompts' = Append(prompts, Prompt("pick", "new"))
               /\ pc' = "select_text"
               /\ UNCHANGED <<local, stderr, exitCode>>
            \/ \E i \in DOMAIN info.worktrees :
                  /\ prompts' = Append(prompts, Prompt("pick", "picked"))
                  /\ local' = [local EXCEPT !.selected =
                                   resolveSelectedWorktree(info, info.worktrees[i].path)]
                  /\ pc' = "switch"
                  /\ UNCHANGED <<stderr, exitCode>>

\* `New worktree branch`: cancelled, or a branch for addWorktree.
SelectNewBranch ==
    /\ pc = "select_text"
    /\ UNCHANGED runs
    /\ UNCHANGED <<world, cmd, cwd, home, stdinTTY, stdoutTTY, info, local, calls, made,
                   stdout, stderr>>
    /\ \/ /\ prompts' = Append(prompts, Prompt("text", "cancel"))
          /\ Exit0
          /\ UNCHANGED arg
       \/ \E branch \in TextAnswers :
             /\ prompts' = Append(prompts, Prompt("text", "typed"))
             /\ arg' = branch
             /\ pc' = "add"
             /\ UNCHANGED exitCode

\* The end of the picker's handler: switchToWorktreeShell(target) when both
\* streams are terminals, else console.log(target).
SwitchToWorktree ==
    /\ pc = "switch"
    /\ UNCHANGED runs
    /\ UNCHANGED <<world, cmd, arg, cwd, home, stdinTTY, stdoutTTY, info, local, prompts, made>>
    /\ IF ~shouldSwitchToSelectedWorktree
       THEN /\ stdout' = Append(stdout, local.selected)
            /\ Exit0
            /\ UNCHANGED <<calls, stderr>>
       ELSE \E shell \in {<<>>, <<"s", "h">>}, ok \in BOOLEAN :
              IF ~requireEnv("SHELL is not set.", shell).ok
              THEN /\ Fail(requireEnv("SHELL is not set.", shell).err)
                   /\ UNCHANGED <<calls, stdout>>
              ELSE /\ calls' = Append(calls, Call("shell", <<local.selected>>, ok))
                   /\ UNCHANGED stdout
                   /\ IF ok THEN Exit0 /\ UNCHANGED stderr
                      ELSE Fail([kind |-> "shell exited with status", about |-> shell])

\* ---------------------------------------------------------- specification

Next ==
    \/ Start
    \/ Finish
    \/ GetRepoInfo
    \/ RemoveWorktree
    \/ AddWorktreeGuards
    \/ AddWorktreeGit
    \/ AddWorktreeCopyEnv
    \/ AddWorktreeInstall
    \/ ListWorktrees
    \/ SelectWorktree
    \/ SelectNewBranch
    \/ SwitchToWorktree
    \/ MergeGetCurrentBranch
    \/ MergeResolveTarget
    \/ MergeConfirmContinue
    \/ MergeGit
    \/ MergeConfirmCleanup
    \/ CleanupRemove
    \/ CleanupDeleteBranch

Spec == Init /\ [][Next]_vars

\* ------------------------------------------------------------------ claims

Done == pc = "done"

\* The inventory of this invocation has been built.
HasInfo == info # NoInfo

Interactive == stdinTTY /\ stdoutTTY

CallsOf(names) == {k \in DOMAIN calls : calls[k].cmd \in names}

Asked(kind, answer) == \E k \in DOMAIN prompts : prompts[k] = Prompt(kind, answer)

MainEntries(inf) == {i \in DOMAIN inf.worktrees : inf.worktrees[i].isMain}

\* The entries of inf that have `branch` checked out.
OnBranch(inf, branch) == {i \in DOMAIN inf.worktrees : inf.worktrees[i].branch = branch}

\* C1: every RepoInfo built by getRepoInfo has exactly one entry with
\* isMain = true.  (Violated: two listed directories that both hold a .git
\* directory are both flagged, and getRepoInfo never clears a flag.)
C1_ExactlyOneMain == HasInfo => Cardinality(MainEntries(info)) = 1

\* C2: remove with an explicit branch: no entry with that branch -> failure;
\* the entry is main -> 'Refusing to remove main worktree at <path>'; in both
\* cases no `git worktree remove`.  For a non-main entry `git worktree remove
\* <entry.path>` is invoked exactly once.
C2_RemoveExplicit ==
    (Done /\ cmd = "remove" /\ HasInfo /\ Trim(arg) # <<>>) =>
        LET found == OnBranch(info, Trim(arg))
            removes == CallsOf({"git worktree remove"})
        IN  /\ found = {} => exitCode = 1 /\ removes = {}
            /\ \A i \in found :
                  IF info.worktrees[i].isMain
                  THEN /\ exitCode = 1
                       /\ removes = {}
                       /\ stderr = <<[kind |-> "Refusing to remove main worktree at",
                                      about |-> info.worktrees[i].path]>>
                  ELSE /\ Cardinality(removes) = 1
                       /\ \A k \in removes : calls[k].args = <<info.worktrees[i].path>>

C2_Witness ==
    /\ Done /\ cmd = "remove" /\ HasInfo /\ Trim(arg) # <<>>
    /\ exitCode = 1
    /\ Len(stderr) = 1 /\ stderr[1].kind = "Refusing to remove main worktree at"

\* C3: remove without a branch (absent or blank) fails with 'Branch name is
\* required when current directory is not a linked worktree.', exit 1 and no
\* `git worktree remove`, whenever the current entry is main or undefined.
C3_RemoveNeedsBranch ==
    (/\ Done /\ cmd = "remove" /\ HasInfo /\ Trim(arg) = <<>>
     /\ \/ info.currentWorktreeEntry = 0
        \/ info.worktrees[info.currentWorktreeEntry].isMain) =>
        /\ exitCode = 1
        /\ stderr = <<[kind |-> "Branch name is required when current directory is not a linked worktree.",
                       about |-> <<>>]>>
        /\ CallsOf({"git worktree remove"}) = {}

C3_Witness ==
    /\ Done /\ cmd = "remove" /\ HasInfo /\ arg = <<" ">>
    /\ info.currentWorktreeEntry = 0
    /\ exitCode = 1

\* The parsed fields of an entry: what `git worktree list` says of it.
Listed(e) ==
    [path |-> e.path, head |-> e.head, branchRef |-> e.branchRef,
     detached |-> e.detached, bare |-> e.bare]

ListedSeq(entries) == [i \in DOMAIN entries |-> Listed(entries[i])]

\* C4: remove without a branch from a non-main linked worktree invokes
\* `git worktree remove` on exactly the current entry's path; when git succeeds
\* the next `git worktree list` lacks that entry and has every other entry
\* unchanged, and the exit status is 0.
C4_RemoveCurrent ==
    (/\ Done /\ cmd = "remove" /\ HasInfo /\ Trim(arg) = <<>>
     /\ info.currentWorktreeEntry # 0
     /\ ~info.worktrees[info.currentWorktreeEntry].isMain) =>
        LET current == info.worktrees[info.currentWorktreeEntry]
        IN  /\ Len(calls) = 4
            /\ CallsOf({"git worktree remove"}) = {4}
            /\ calls[4].args = <<current.path>>
            /\ calls[4].ok =>
                  /\ exitCode = 0
                  /\ ListedSeq(parseWorktrees(Porcelain(wts)))
                        = SelectSeq(ListedSeq(info.worktrees), LAMBDA e : e.path # current.path)
                  /\ Len(wts) = Len(info.worktrees) - 1

C4_Witness ==
    /\ Done /\ cmd = "remove" /\ HasInfo /\ Trim(arg) = <<>>
    /\ info.currentWorktreeEntry # 0
    /\ ~info.worktrees[info.currentWorktreeEntry].isMain
    /\ exitCode = 0
    /\ Len(wts) = 2

\* The cd target as the specification states it: the worktree on master if
\* there is one other than the removed entry, else the one on main, else the
\* main worktree.
ExpectedCdTarget(inf, removed) ==
    LET others(b) == OnBranch(inf, b) \ {removed}
    IN  IF others(Master) # {} THEN inf.worktrees[CHOOSE i \in others(Master) : TRUE].path
        ELSE IF others(MainBranch) # {}
             THEN inf.worktrees[CHOOSE i \in others(MainBranch) : TRUE].path
        ELSE inf.worktrees[inf.mainWorktree].path

\* C5: for every inventory and every removable (non-main) entry the cd target
\* is the master worktree, else the main-branch worktree, else the main
\* worktree, the removed entry excepted, and never canonicalizes to the removed
\* path; and that is the path remove prints.
C5_CdTarget ==
    /\ (pc = "remove" /\ HasInfo) =>
          \A i \in DOMAIN info.worktrees \ MainEntries(info) :
             /\ resolvePostRemoveCdTarget(info, i) = ExpectedCdTarget(info, i)
             /\ canonicalizePath(resolvePostRemoveCdTarget(info, i))
                   # canonicalizePath(info.worktrees[i].path)
    /\ (Done /\ cmd = "remove" /\ HasInfo /\ stdout # <<>>) =>
          \E i \in DOMAIN info.worktrees \ MainEntries(info) :
             /\ calls[Len(calls)].args = <<info.worktrees[i].path>>
             /\ stdout = <<ExpectedCdTarget(info, i)>>
             /\ stdout[1] # info.worktrees[i].path

C5_Witness ==
    /\ Done /\ cmd = "remove" /\ HasInfo
    /\ calls[Len(calls)].args = <<Managed(Master)>>
    /\ stdout = <<Managed(MainBranch)>>

\* The target path of add(branch), for a branch normalizeBranch accepts.
AddTarget(inf, branch) ==
    Join(inf.worktreesRoot, inf.repoName \o <<"_", "_">> \o normalizeBranch(branch).val)

AddRefused ==
    /\ exitCode = 1
    /\ made = {}
    /\ CallsOf({"git worktree add"}) = {}

\* C6 as stated: add(branch) when an entry already has that branch checked out
\* fails with an error naming that entry's path, creates no directory and does
\* not invoke `git worktree add`.  (Violated: the 'path already exists' and
\* containment guards come first, and their errors name the target path or none.)
C6_AddExistingNamesWorktree ==
    (Done /\ cmd = "add" /\ HasInfo /\ OnBranch(info, arg) # {}) =>
        /\ AddRefused
        /\ \E i \in OnBranch(info, arg) :
              Len(stderr) = 1 /\ stderr[1].about = info.worktrees[i].path

\* C6 amended: such an add fails, creates no directory and invokes no
\* `git worktree add`; its error is 'Branch <b> is already checked out at
\* <path>' with the existing worktree's path when the target path passes the
\* containment guard and does not exist, else the error of the guard that
\* fails first ('Invalid branch name', 'Worktree path already exists: <target>').
C6_AddExisting ==
    (Done /\ cmd = "add" /\ HasInfo /\ OnBranch(info, arg) # {}) =>
        /\ AddRefused
        /\ normalizeBranch(arg).ok
        /\ LET target == AddTarget(info, arg)
           IN  IF ~isSafeWorktreePath(info.worktreesRoot, target)
               THEN stderr = <<[kind |-> "Invalid branch name", about |-> arg]>>
               ELSE IF existsSync(target)
               THEN stderr = <<[kind |-> "Worktree path already exists", about |-> target]>>
               ELSE \E i \in OnBranch(info, arg) :
                      stderr = <<[kind |-> "Branch is already checked out at",
                                  about |-> info.worktrees[i].path]>>

C6_Witness ==
    /\ Done /\ cmd = "add" /\ HasInfo /\ OnBranch(info, arg) # {}
    /\ Len(stderr) = 1 /\ stderr[1].kind = "Branch is already checked out at"
    /\ stderr[1].about = PMain

\* `git branch --show-current` has answered: local.currentBranch is set.
KnowsCurrentBranch ==
    \E k \in DOMAIN calls : calls[k] = Call("git branch --show-current", <<>>, TRUE)

CleanupCalls == CallsOf({"git worktree remove", "git branch -d"})

\* C7: a merge whose target branch equals the current branch fails with
\* 'Cannot merge branch <b> into itself.' before any confirmation, and invokes
\* neither `git merge` nor `git worktree remove` nor `git branch -d`.
C7_NoSelfMerge ==
    cmd = "merge" =>
        /\ (/\ Done /\ HasInfo /\ KnowsCurrentBranch /\ Trim(arg) # <<>>
            /\ local.currentBranch # <<>>
            /\ OnBranch(info, Trim(arg)) # {}
            /\ Trim(arg) = local.currentBranch) =>
               /\ exitCode = 1
               /\ stderr = <<[kind |-> "Cannot merge branch into itself",
                              about |-> local.currentBranch]>>
               /\ prompts = <<>>
               /\ CallsOf({"git merge"}) \cup CleanupCalls = {}
        /\ \A k \in CallsOf({"git merge"}) :
               local.currentBranch = <<>> \/ calls[k].args # <<local.currentBranch>>
        /\ (local.target # 0 /\ local.currentBranch # <<>>) =>
               info.worktrees[local.target].branch # local.currentBranch

C7_Witness ==
    /\ Done /\ cmd = "merge" /\ HasInfo
    /\ stderr = <<[kind |-> "Cannot merge branch into itself", about |-> FX]>>

\* C8: when the merge target is the main worktree the command stops after
\* `git merge`: no cleanup confirmation, no `git worktree remove`, no
\* `git branch -d`; and cleanupMergedWorktree runs nothing for a main entry.
C8_MergeKeepsMain ==
    /\ (cmd = "merge" /\ local.target # 0 /\ info.worktrees[local.target].isMain) =>
          /\ pc \in {"merge_confirm", "merge_git", "done"}
          /\ ~\E k \in DOMAIN prompts : prompts[k].kind = "cleanup"
          /\ CleanupCalls = {}
          /\ \A k \in CallsOf({"git merge"}) : calls[k].ok => Done /\ exitCode = 0
    /\ HasInfo => \A i \in MainEntries(info) : cleanupMergedWorktree(info, i) # "run"

C8_Witness ==
    /\ Done /\ cmd = "merge" /\ local.target # 0
    /\ info.worktrees[local.target].isMain
    /\ \E k \in CallsOf({"git merge"}) : calls[k].ok
    /\ exitCode = 0

\* The confirmation of `kind` returned yes: answered yes, or not asked
\* because the run is not interactive.
ConfirmedYes(kind) == IF Interactive THEN Asked(kind, "yes") ELSE TRUE

\* C9: in merge cleanup `git branch -d <target.branch>` is invoked only after
\* `git worktree remove <target.path>` has succeeded, and both only after
\* `git merge` succeeded and the cleanup confirmation returned yes.
C9_CleanupOrder ==
    cmd = "merge" =>
        /\ \A k \in CallsOf({"git branch -d"}) :
              /\ calls[k].args = <<info.worktrees[local.target].branch>>
              /\ k > 1
              /\ calls[k - 1] = Call("git worktree remove",
                                      <<info.worktrees[local.target].path>>, TRUE)
        /\ \A k \in CleanupCalls :
              /\ \E j \in 1..(k - 1) : calls[j] = Call("git merge", <<local.targetBranch>>, TRUE)
              /\ ConfirmedYes("cleanup")
        /\ \A k \in CallsOf({"git worktree remove"}) :
              calls[k].args = <<info.worktrees[local.target].path>>

C9_Witness ==
    /\ Done /\ cmd = "merge" /\ exitCode = 0
    /\ Interactive
    /\ \E k \in CallsOf({"git branch -d"}) : calls[k].ok

\* C10: when the current branch is not master (a detached HEAD included)
\* `git merge` is invoked only after the confirmation returned yes; a declined
\* confirmation ends the command with exit 0, no merge and no cleanup; on
\* master the confirmation is not asked.
C10_ConfirmOffMaster ==
    cmd = "merge" =>
        /\ (CallsOf({"git merge"}) # {} /\ local.currentBranch # Master) =>
              ConfirmedYes("continue")
        /\ Asked("continue", "no") =>
              /\ Done /\ exitCode = 0
              /\ CallsOf({"git merge"}) \cup CleanupCalls = {}
        /\ (KnowsCurrentBranch /\ local.currentBranch = Master) =>
              ~\E k \in DOMAIN prompts : prompts[k].kind = "continue"
        /\ (\E k \in DOMAIN prompts : prompts[k].kind = "continue") => Interactive

C10_Witness ==
    /\ Done /\ cmd = "merge" /\ exitCode = 0
    /\ local.currentBranch = <<>>
    /\ Asked("continue", "no")

\* The external commands that change the repository.
Mutating == {"git worktree add", "git worktree remove", "git merge", "git branch -d"}

\* C11: add, remove and merge are all-or-nothing: a run that ends with exit 1
\* has created or removed no worktree, created or deleted no branch and
\* performed no merge.  (Violated: the install step of add fails after the
\* worktree was created; `git branch -d` fails after the merge and after the
\* worktree was removed.)
C11_AllOrNothing ==
    (Done /\ cmd \in {"add", "remove", "merge"} /\ exitCode = 1) =>
        /\ \A k \in CallsOf(Mutating) : ~calls[k].ok
        /\ HasInfo => ListedSeq(parseWorktrees(Porcelain(wts))) = ListedSeq(info.worktrees)

\* Branch strings: every string of at most MaxBranchLen characters over a
\* letter, the separator, the dot and the space.
BranchStrings == UNION {[1..n -> {"e", "/", ".", " "}] : n \in 0..MaxBranchLen}

\* The add has reached the containment guard and the guard refused.
GuardRefused ==
    /\ Done /\ HasInfo /\ normalizeBranch(arg).ok
    /\ stderr = <<[kind |-> "Invalid branch name", about |-> arg]>>

\* The worktree of `branch` at the canonical form of `path`.
WorktreeAt(path, branch) ==
    \E i \in DOMAIN wts : wts[i].path = canonicalizePath(path) /\ wts[i].branch = branch

StrictlyInside(root, path) ==
    /\ IsPathPrefix(canonicalizePath(root), canonicalizePath(path))
    /\ canonicalizePath(root) # canonicalizePath(path)

\* C12 as stated: for every branch normalizeBranch accepts the target path of
\* add is contained in worktreesRoot, so the containment guard never refuses;
\* and a successful add creates its worktree strictly inside worktreesRoot and
\* returns that path.  (Violated: a symbolic link at the target path that
\* leads out of worktreesRoot makes the guard refuse.)
C12_GuardUnreachable ==
    /\ (pc = "add" /\ HasInfo) =>
          \A b \in BranchStrings \cup Args :
             normalizeBranch(b).ok => isSafeWorktreePath(info.worktreesRoot, AddTarget(info, b))
    /\ cmd \in {"add", "select"} => ~GuardRefused
    /\ (Done /\ cmd = "add" /\ exitCode = 0) =>
          /\ stdout = <<AddTarget(info, arg)>>
          /\ StrictlyInside(info.worktreesRoot, AddTarget(info, arg))

\* C12 amended: for every accepted branch the target path is a direct child
\* of worktreesRoot as a path, and the containment guard refuses ('Invalid
\* branch name', nothing created, no `git worktree add`) exactly when the
\* target path is a symbolic link that leads out of worktreesRoot; a successful
\* add creates its worktree strictly inside worktreesRoot and returns that path.
C12_Containment ==
    /\ (pc = "add" /\ HasInfo) =>
          \A b \in BranchStrings \cup Args :
             normalizeBranch(b).ok =>
                LET target == AddTarget(info, b)
                IN  /\ Dirname(target) = Resolve(info.worktreesRoot)
                    /\ Basename(target) \notin {<<>>, <<".">>, <<".", ".">>}
                    /\ ~isSafeWorktreePath(info.worktreesRoot, target) =>
                          Join(realpathSync(Dirname(target)), Basename(target)) \in symlinks
    /\ (Done /\ cmd \in {"add", "select"} /\ HasInfo /\ normalizeBranch(arg).ok) =>
          (~isSafeWorktreePath(info.worktreesRoot, AddTarget(info, arg))
              <=> stderr = <<[kind |-> "Invalid branch name", about |-> arg]>>)
    /\ (cmd \in {"add", "select"} /\ GuardRefused) =>
          /\ exitCode = 1
          /\ made = {}
          /\ CallsOf({"git worktree add"}) = {}
    /\ (Done /\ cmd = "add" /\ exitCode = 0) =>
          /\ stdout = <<AddTarget(info, arg)>>
          /\ StrictlyInside(info.worktreesRoot, AddTarget(info, arg))
          /\ canonicalizePath(AddTarget(info, arg)) \in dirs
          /\ WorktreeAt(AddTarget(info, arg), arg)

C12_Witness ==
    /\ cmd = "add" /\ arg = BranchE /\ GuardRefused
    /\ AddTarget(info, arg) \in symlinks

\* The names of the regular files of directory d.
FilesOf(d) == {f[2] : f \in {g \in files : g[1] = realpathSync(Resolve(d))}}

EnvFilesOf(d) == {name \in FilesOf(d) : StartsWith(name, EnvName)}

\* addWorktree has passed its guards (branchExists is what follows them).
PastGuards == CallsOf({"git show-ref"}) # {}

\* C13: a successful add runs in this order: the guards pass, the parent
\* directories are created, `git worktree add` runs with `<path> <branch>` iff
\* the local branch exists and with `-b <branch> <path>` otherwise, then the
\* `.env*` files of the main worktree's root are copied into the new worktree,
\* then the install runs in the new worktree.
C13_AddOrder ==
    (cmd = "add" /\ PastGuards) =>
        LET target == AddTarget(info, arg)
            mainPath == info.worktrees[info.mainWorktree].path
        IN  /\ normalizeBranch(arg).ok
            /\ isSafeWorktreePath(info.worktreesRoot, target)
            /\ OnBranch(info, arg) = {}
            /\ local.worktreePath = target
            /\ existsSync(Dirname(target))
            /\ calls[4] = Call("git show-ref", <<arg>>, local.hasBranch)
            /\ pc = "add_git" =>
                  /\ Len(calls) = 4
                  /\ ~existsSync(target)
                  /\ local.hasBranch <=> arg \in branches
            /\ \A k \in CallsOf({"git worktree add"}) :
                  /\ k = 5
                  /\ calls[k].args = IF local.hasBranch THEN <<target, arg>>
                                     ELSE <<<<"-b">>, arg, target>>
            /\ pc = "add_env" =>
                  /\ Len(calls) = 5 /\ calls[5].ok
                  /\ WorktreeAt(target, arg)
                  /\ FilesOf(target) = {}
            /\ pc = "add_install" =>
                  /\ Len(calls) = 5 /\ calls[5].ok
                  /\ FilesOf(target) = EnvFilesOf(mainPath)
            /\ \A k \in CallsOf({"bun install"}) :
                  /\ k = 6
                  /\ calls[5] = Call("git worktree add", calls[5].args, TRUE)
                  /\ calls[k].args = <<target>>
                  /\ FilesOf(target) = EnvFilesOf(mainPath)
            /\ (Done /\ exitCode = 0) =>
                  /\ Len(calls) = 6 /\ calls[6] = Call("bun install", <<target>>, TRUE)
                  /\ stdout = <<target>>

C13_Witness ==
    /\ Done /\ cmd = "add" /\ exitCode = 0
    /\ calls[5] = Call("git worktree add", <<<<"-b">>, arg, AddTarget(info, arg)>>, TRUE)
    /\ FilesOf(AddTarget(info, arg)) = {EnvName, EnvLocalName}
    /\ ReadmeName \in FilesOf(info.worktrees[info.mainWorktree].path)

\* The confirmations shown so far.
ConfirmPrompts == {k \in DOMAIN prompts : prompts[k].kind \in {"continue", "cleanup"}}

\* C14: confirmDefaultYes never blocks a run that is not interactive: when
\* stdin or stdout is not a TTY no confirmation is shown and each one returns
\* true (the merge and the cleanup go on); when both are TTYs each confirmation
\* passed was shown, once, and answered yes.
C14_ConfirmNeverBlocks ==
    cmd = "merge" =>
        /\ ~Interactive =>
              /\ ConfirmPrompts = {}
              /\ (Done /\ exitCode = 0 /\ local.target # 0) =>
                    /\ \E k \in CallsOf({"git merge"}) : calls[k].ok
                    /\ ~info.worktrees[local.target].isMain =>
                          /\ \E k \in CallsOf({"git worktree remove"}) : calls[k].ok
                          /\ \E k \in CallsOf({"git branch -d"}) : calls[k].ok
        /\ Interactive =>
              /\ (pc = "merge_git" /\ local.currentBranch # Master) => Asked("continue", "yes")
              /\ pc \in {"cleanup_remove", "cleanup_branch"} => Asked("cleanup", "yes")
              /\ pc = "merge_confirm" => ConfirmPrompts = {}
              /\ pc = "cleanup_confirm" => ~\E k \in ConfirmPrompts : prompts[k].kind = "cleanup"
              /\ \A k \in ConfirmPrompts :
                    prompts[k].answer # "yes" => k = Len(prompts) /\ Done /\ exitCode = 0
        /\ \A j, k \in ConfirmPrompts : prompts[j].kind = prompts[k].kind => j = k

C14_Witness ==
    /\ Done /\ cmd = "merge" /\ exitCode = 0
    /\ stdinTTY /\ ~stdoutTTY
    /\ local.currentBranch # Master
    /\ prompts = <<>>
    /\ \E k \in CallsOf({"git branch -d"}) : calls[k].ok

\* Some prompt of this run was cancelled.
Cancelled == \E k \in DOMAIN prompts : prompts[k].answer = "cancel"

\* C15: cancelling a prompt (worktree picker, new-branch input, merge picker,
\* confirmation) ends the process at once with exit status 0: the step that
\* cancels invokes no command and changes nothing, the process is then over
\* with nothing on the error stream, and nothing is invoked afterwards.
C15_CancelExits ==
    /\ [](Cancelled =>
            /\ Done /\ exitCode = 0 /\ stderr = <<>>
            /\ prompts[Len(prompts)].answer = "cancel"
            /\ \A k \in 1..(Len(prompts) - 1) : prompts[k].answer # "cancel")
    /\ [][(~Cancelled /\ Cancelled') =>
            (calls' = calls /\ UNCHANGED world /\ pc' = "done" /\ exitCode' = 0)]_vars
    /\ [][Cancelled => (UNCHANGED world /\ pc' = "idle" /\ calls' = <<>>)]_vars

C15_Witness ==
    /\ Done /\ cmd = "merge" /\ exitCode = 0
    /\ Asked("cleanup", "cancel")
    /\ calls[Len(calls)] = Call("git merge", <<local.targetBranch>>, TRUE)

\* The external commands run through runCommand.
RunCommands ==
    {"git worktree list", "git worktree add", "git worktree remove", "git merge",
     "git branch -d", "git branch --show-current", "bun install"}

\* C16: a command run through runCommand that fails is the last command of
\* the run (no retry, nothing after it), the process exits with status 1 and
\* the failure is what the error stream reports; a failed `git merge` is
\* followed by no cleanup confirmation and no cleanup command.
C16_FailureIsFatal ==
    \A k \in CallsOf(RunCommands) :
       ~calls[k].ok =>
          /\ k = Len(calls)
          /\ Done /\ exitCode = 1
          /\ stderr = <<ExternalFailure(calls[k].cmd)>>
          /\ \A j \in 1..(k - 1) : calls[j].cmd \in RunCommands => calls[j].ok
          /\ calls[k].cmd = "git merge" =>
                /\ CleanupCalls = {}
                /\ ~\E p \in DOMAIN prompts : prompts[p].kind = "cleanup"

C16_Witness ==
    /\ Done /\ cmd = "merge" /\ exitCode = 1
    /\ local.target # 0
    /\ calls[Len(calls)] = Call("git merge", <<local.targetBranch>>, FALSE)
    /\ ~info.worktrees[local.target].isMain

\* C17: every fatal failure, of whatever class (HOME or SHELL unset included),
\* prints a single line to the error stream and exits with status 1.
\* (Violated: HOME is read by the module's first statement, outside runOrExit;
\* unset, the error is uncaught and the runtime prints it with its stack trace.)
C17_OneLineExit1 ==
    Done =>
        /\ exitCode \in {0, 1}
        /\ exitCode = 1 => Len(stderr) = 1
        /\ stderr # <<>> => exitCode = 1

Spaces(n) == [i \in 1..n |-> " "]

\* The label the specification gives an entry in the output of list.
ExpectedLabel(entry) ==
    (IF entry.branch = <<>> THEN <<"(", "d", "e", "t", "a", "c", "h", "e", "d", ")">>
     ELSE entry.branch)
    \o (IF entry.isMain THEN <<" ", "(", "m", "a", "i", "n", ")">>
        ELSE IF ~entry.managed THEN <<" ", "(", "p", "l", "a", "i", "n", ")">>
        ELSE <<>>)

\* C18: list prints exactly one line per worktree entry, in porcelain order:
\* the entry's label (branch or `(detached)`, with ` (main)` for a main entry,
\* ` (plain)` for an unmanaged non-main entry, nothing for a managed entry)
\* padded with spaces to a width common to all lines, then the entry's path;
\* so the path of every worktree of the repository is in the output.
C18_ListLines ==
    (Done /\ cmd = "list" /\ exitCode = 0) =>
        /\ Len(stdout) = Len(info.worktrees)
        /\ Len(stdout) = Len(wts)
        /\ \E width \in 1..40 :
              \A i \in DOMAIN info.worktrees :
                 LET label == ExpectedLabel(info.worktrees[i])
                 IN  /\ Len(label) < width
                     /\ stdout[i] = label \o Spaces(width - Len(label)) \o PathStr(wts[i].path)
        /\ \A i \in DOMAIN wts : info.worktrees[i].path = wts[i].path

C18_Witness ==
    /\ Done /\ cmd = "list" /\ exitCode = 0
    /\ Len(stdout) = 3
    /\ stdout[1] = Master \o <<" ", "(", "m", "a", "i", "n", ")">> \o Spaces(2) \o PathStr(PMain)
    /\ stdout[2] = FX \o Spaces(12) \o PathStr(Managed(F_X))
    /\ stdout[3] = F_X \o <<" ", "(", "p", "l", "a", "i", "n", ")">> \o Spaces(4) \o PathStr(POther)

\* The commands list may invoke: the probe and the two queries of getRepoInfo.
Queries ==
    {"git rev-parse --absolute-git-dir", "git worktree list", "git rev-parse --show-toplevel"}

\* C19: list is a pure read: it invokes only queries, creates nothing, and no
\* step of it changes a worktree, a branch, a directory or a file; so the
\* output of a successful list is the output list computes again from the
\* state it leaves (two runs with no mutation between them print the same).
C19_ListIsPureRead ==
    /\ [](cmd = "list" =>
            /\ \A k \in DOMAIN calls : calls[k].cmd \in Queries
            /\ made = {}
            /\ prompts = <<>>)
    /\ [][(cmd = "list" \/ cmd' = "list") => UNCHANGED world]_vars
    /\ []((Done /\ cmd = "list" /\ exitCode = 0) =>
            /\ getRepoInfo(Porcelain(wts), GitShowToplevel) = Ok(info)
            /\ stdout = listWorktrees(getRepoInfo(Porcelain(wts), GitShowToplevel).val))

C19_Witness ==
    /\ Done /\ cmd = "list" /\ exitCode = 0
    /\ runs = 2
    /\ Len(stdout) = Len(wts)
    /\ \E i \in DOMAIN wts : wts[i].path \notin dirs

\* getRepoInfo has just built the inventory: nothing has changed since.
JustListed == HasInfo /\ pc = cmd

ProbeName == "git rev-parse --absolute-git-dir"

\* C21: the probe is the first git command of every run; when it fails it is
\* the only one (no `git worktree list`, no `git rev-parse --show-toplevel`, no
\* command of the operation), the error is 'Current directory is not inside a
\* git repository.' and the exit status is 1.
C21_ProbeFirst ==
    /\ calls # <<>> => calls[1].cmd = ProbeName
    /\ \A k \in CallsOf({ProbeName}) : k = 1
    /\ (calls # <<>> /\ ~calls[1].ok) =>
          /\ Len(calls) = 1
          /\ Done /\ exitCode = 1
          /\ ~HasInfo
          /\ stderr = <<[kind |-> "Current directory is not inside a git repository.",
                         about |-> <<>>]>>
    /\ (Done /\ calls = <<>>) => home = <<>>

C21_Witness ==
    /\ Done /\ cmd = "merge" /\ exitCode = 1
    /\ calls = <<Call(ProbeName, <<>>, FALSE)>>
    /\ cwd = POutside

\* The entries whose path is the working directory or an ancestor of it.
Around(inf) ==
    {i \in DOMAIN inf.worktrees :
        IsPathPrefix(canonicalizePath(inf.worktrees[i].path), canonicalizePath(cwd))}

\* The entries whose canonical path is that of git's top-level.
AtTopLevel(inf, top) ==
    {i \in DOMAIN inf.worktrees :
        canonicalizePath(inf.worktrees[i].path) = canonicalizePath(top)}

\* C22: when git reports a top-level the current entry is the entry whose
\* canonical path is the canonical top-level, undefined when no entry matches
\* (no prefix fallback); when git reports none it is, among the entries whose
\* path is the working directory or an ancestor of it, one with the longest
\* path, undefined when there is none.
C22_CurrentEntry ==
    JustListed =>
        LET ws == info.worktrees
            current == info.currentWorktreeEntry
            top == GitShowToplevel
        IN  /\ current \in 0..Len(ws)
            /\ info.currentWorktree = IF current = 0 THEN <<>> ELSE ws[current].path
            /\ top # <<>> =>
                  IF AtTopLevel(info, top) = {} THEN current = 0
                  ELSE current \in AtTopLevel(info, top)
            /\ top = <<>> =>
                  IF Around(info) = {} THEN current = 0
                  ELSE /\ current \in Around(info)
                       /\ \A j \in Around(info) :
                             Len(PathStr(ws[j].path)) <= Len(PathStr(ws[current].path))

C22_Witness ==
    /\ JustListed
    /\ GitShowToplevel = <<>>
    /\ Cardinality(Around(info)) = 2
    /\ info.currentWorktreeEntry = 1
    /\ info.worktrees[1].bare

\* The case without fallback: git's top-level matches no entry although an
\* entry is an ancestor of the working directory.
C22_NoFallbackReached ==
    /\ JustListed
    /\ GitShowToplevel # <<>>
    /\ AtTopLevel(info, GitShowToplevel) = {}
    /\ Around(info) # {}
    /\ info.currentWorktreeEntry = 0

\* The directory name of `entry` follows the convention of repository `name`:
\* `<name>__<normalizeBranch(branch)>`, or any name starting with `<name>__`
\* when the entry has no branch.
FollowsConvention(name, entry) ==
    LET base == Basename(entry.path)
        prefix == name \o <<"_", "_">>
    IN  IF entry.branch = <<>> THEN StartsWith(base, prefix)
        ELSE /\ normalizeBranch(entry.branch).ok
             /\ base = prefix \o normalizeBranch(entry.branch).val

\* managed, as the specification defines it.
ExpectedManaged(inf, entry) ==
    /\ ~entry.isMain
    /\ IsPathPrefix(canonicalizePath(inf.worktreesRoot), canonicalizePath(entry.path))
    /\ FollowsConvention(inf.repoName, entry)

\* Entries to classify: directories in and out of the worktrees root, named
\* after a branch, after another branch or after none, main or not.
ProbeEntries ==
    {[NewEntry(path) EXCEPT !.branch = branch, !.isMain = isMain] :
        path \in {Managed(F_X), Managed(<<"k">>), Managed(<<>>), EscapeLink, POther,
                  PWorktrees, <<Seg_w, <<"r", "_", "_">> \o F_X>>,
                  <<HomeLink[1], Seg_worktrees, <<"r", "_", "_">> \o F_X>>},
        branch \in {<<>>, FX, F_X, Dev},
        isMain \in BOOLEAN}

\* C23: an entry is managed iff it is not main, its path is contained in
\* worktreesRoot and its directory name follows the convention; so every
\* managed entry lies strictly inside worktreesRoot and no main entry is
\* managed.  Checked on the entries of every inventory and, when list is about
\* to print, on the entries of ProbeEntries.
C23_Managed ==
    /\ JustListed =>
          \A i \in DOMAIN info.worktrees :
             LET entry == info.worktrees[i]
             IN  /\ entry.managed <=> ExpectedManaged(info, entry)
                 /\ entry.managed => StrictlyInside(info.worktreesRoot, entry.path)
                 /\ entry.isMain => ~entry.managed
    /\ (pc = "list" /\ HasInfo) =>
          \A entry \in ProbeEntries :
             /\ isManagedWorktree(info.worktreesRoot, info.repoName, entry)
                   <=> ExpectedManaged(info, entry)
             /\ isManagedWorktree(info.worktreesRoot, info.repoName, entry)
                   => StrictlyInside(info.worktreesRoot, entry.path)

C23_Witness ==
    /\ JustListed
    /\ ~info.worktrees[info.mainWorktree].managed
    /\ \E i, j \in DOMAIN info.worktrees :
          /\ info.worktrees[i].managed /\ info.worktrees[i].branch = <<>>
          /\ info.worktrees[j].managed /\ info.worktrees[j].branch = FX
    /\ \E entry \in ProbeEntries :
          /\ entry.branch = Dev /\ entry.path = Managed(F_X)
          /\ ~isManagedWorktree(info.worktreesRoot, info.repoName, entry)

\* Lines of `git worktree list --porcelain`, a line with a key the parser
\* does not know (`locked`) among them.
LineKinds ==
    <<[key |-> "worktree", value |-> PMain], [key |-> "worktree", value |-> POther],
      [key |-> "HEAD", value |-> <<"sha">>], [key |-> "branch", value |-> RefPrefix \o Dev],
      [key |-> "detached", value |-> <<>>], [key |-> "bare", value |-> <<>>],
      [key |-> "locked", value |-> <<>>], BlankLine>>

LinesOf(ks) == [i \in DOMAIN ks |-> LineKinds[ks[i]]]

LineTexts == UNION {[1..n -> DOMAIN LineKinds] : n \in 0..MaxLines}

WorktreeLines(ls) == {i \in DOMAIN ls : ls[i].key = "worktree"}

\* The n-th `worktree` line of ls, and the last line of the record it starts.
NthStart(ls, n) ==
    CHOOSE i \in WorktreeLines(ls) : Cardinality({j \in WorktreeLines(ls) : j <= i}) = n

RecordEnd(ls, i) ==
    LET later == {j \in WorktreeLines(ls) : j > i}
    IN  IF later = {} THEN Len(ls) ELSE (CHOOSE j \in later : \A k \in later : j <= k) - 1

\* The value of the last `key` line of the record starting at line i.
LastValue(ls, i, key) ==
    LET at == {j \in i..RecordEnd(ls, i) : ls[j].key = key}
    IN  IF at = {} THEN <<>> ELSE ls[CHOOSE j \in at : \A k \in at : k <= j].value

HasLine(ls, i, key) == \E j \in i..RecordEnd(ls, i) : ls[j].key = key

\* What the specification says parseWorktrees returns.
ExpectedEntries(ls) ==
    [n \in 1..Cardinality(WorktreeLines(ls)) |->
        LET i == NthStart(ls, n)
        IN  [path |-> ls[i].value,
             head |-> LastValue(ls, i, "HEAD"),
             branchRef |-> LastValue(ls, i, "branch"),
             detached |-> HasLine(ls, i, "detached"),
             bare |-> HasLine(ls, i, "bare")]]

\* C24: parseWorktrees returns one entry per `worktree` line, in order, with
\* that line's path and the HEAD / branch / detached / bare of the lines up to
\* the next `worktree` line or the end; blank lines, unknown keys and lines
\* before the first `worktree` line add nothing; a blank line at the end of
\* the text changes nothing.  Checked on every text of LineTexts and on every
\* listing git gives the command.
C24_ParseWorktrees ==
    /\ (pc = "idle" /\ runs = 0) =>
          \A ks \in LineTexts :
             /\ ListedSeq(parseWorktrees(LinesOf(ks))) = ExpectedEntries(LinesOf(ks))
             /\ parseWorktrees(LinesOf(ks) \o <<BlankLine>>) = parseWorktrees(LinesOf(ks))
    /\ JustListed =>
          /\ ListedSeq(info.worktrees) = ExpectedEntries(Porcelain(wts))
          /\ Len(info.worktrees) = Len(wts)
          /\ \A i \in DOMAIN wts :
                /\ info.worktrees[i].path = wts[i].path
                /\ info.worktrees[i].bare = wts[i].bare
                /\ info.worktrees[i].branch = wts[i].branch

C24_Witness ==
    /\ JustListed
    /\ Len(info.worktrees) = 3
    /\ ListedSeq(parseWorktrees(
           <<[key |-> "locked", value |-> <<>>], [key |-> "worktree", value |-> PMain],
             [key |-> "bare", value |-> <<>>], [key |-> "worktree", value |-> POther]>>))
         = <<[path |-> PMain, head |-> <<>>, branchRef |-> <<>>, detached |-> FALSE,
              bare |-> TRUE],
             [path |-> POther, head |-> <<>>, branchRef |-> <<>>, detached |-> FALSE,
              bare |-> FALSE]>>

\* The specification's example, "feature/my branch!", and its slug.
ExampleBranch ==
    <<"f", "e", "a", "t", "u", "r", "e", "/", "m", "y", " ", "b", "r", "a", "n", "c", "h", "!">>

ExampleSlug ==
    <<"f", "e", "a", "t", "u", "r", "e", "_", "m", "y", "_", "b", "r", "a", "n", "c", "h", "_">>

\* The positions of t that survive: the allowed characters and the first
\* character of every maximal run of characters outside the class.
KeptPositions(t) ==
    {i \in DOMAIN t : IsAllowedChar(t[i]) \/ i = 1 \/ IsAllowedChar(t[i - 1])}

NthKept(t, n) ==
    CHOOSE i \in KeptPositions(t) : Cardinality({j \in KeptPositions(t) : j <= i}) = n

\* t with every maximal run of characters outside the class replaced by "_".
ExpectedSlug(t) ==
    [n \in 1..Cardinality(KeptPositions(t)) |->
        IF IsAllowedChar(t[NthKept(t, n)]) THEN t[NthKept(t, n)] ELSE "_"]

\* C25: normalizeBranch replaces every maximal run of characters outside
\* [A-Za-z0-9._-] of the trimmed branch by one "_" and keeps the other
\* characters; the result is non-empty and has allowed characters only; it
\* fails for the empty (trimmed) string and when the result would be "." or
\* "..".  The slug names the directory of every worktree an add creates.
C25_NormalizeBranch ==
    /\ (pc = "idle" /\ runs = 0) =>
          \A b \in BranchStrings \cup Args \cup {ExampleBranch} :
             LET t == Trim(b)
                 r == normalizeBranch(b)
             IN  IF t = <<>> \/ ExpectedSlug(t) \in {<<".">>, <<".", ".">>}
                 THEN ~r.ok
                 ELSE /\ r.ok
                      /\ r.val = ExpectedSlug(t)
                      /\ r.val # <<>>
                      /\ \A i \in DOMAIN r.val : IsAllowedChar(r.val[i])
    /\ (Done /\ cmd = "add" /\ exitCode = 0) =>
          Basename(stdout[1]) = info.repoName \o <<"_", "_">> \o ExpectedSlug(Trim(arg))

C25_Witness ==
    /\ Done /\ cmd = "add" /\ exitCode = 0 /\ arg = FX
    /\ Basename(stdout[1]) = info.repoName \o <<"_", "_">> \o F_X
    /\ normalizeBranch(ExampleBranch) = Ok(ExampleSlug)
    /\ normalizeBranch(<<"e", "/", " ", "e">>) = Ok(<<"e", "_", "e">>)
    /\ ~normalizeBranch(<<".", ".">>).ok
    /\ ~normalizeBranch(<<".">>).ok
    /\ ~normalizeBranch(<<>>).ok

\* A sibling of the worktrees root whose name has the root's name as a string
\* prefix: /h/worktrees2.
PSibling == <<Seg_h, Seg_worktrees \o <<"2">>>>

\* Paths the containment check is tried on: the root and its aliases through
\* the HOME link, children, a child through `..`, the link that leaves the
\* root, the sibling, and paths elsewhere.
SafeProbes ==
    {<<>>, PHome, HomeLink, PWorktrees, Join(HomeLink, Seg_worktrees),
     PSibling, Join(PSibling, Seg_x), EscapeLink, Join(EscapeLink, Seg_x),
     <<Seg_t, Seg_worktrees, <<"r", "_", "_", "e">>>>,
     Join(PWorktrees, Seg_x), <<Seg_h, Seg_worktrees, Seg_x, <<".", ".">>, <<".", ".">>, Seg_x>>,
     Managed(F_X), PMain, POther, PStray}

\* The roots: every probe but the filesystem root (worktreesRoot is
\* <HOME>/worktrees, never the filesystem root).
SafeRoots == SafeProbes \ {<<>>}

CanonProbes ==
    SafeProbes \cup
    {<<Seg_t, Seg_worktrees, Seg_x, Seg_p>>, <<Seg_t, Seg_x>>, <<Seg_x, Seg_p>>,
     <<Seg_t, <<".">>, Seg_worktrees, Seg_x>>, <<Seg_t, <<".", ".">>, Seg_t, Seg_x>>,
     Join(EscapeLink, Seg_r), Join(PStray, Seg_x)}

\* The longest prefix of the resolved path that exists (the root, of length
\* 0, when none does).
ExistingPrefix(r) ==
    LET ns == {n \in 0..Len(r) : existsSync(SubSeq(r, 1, n))}
    IN  IF ns = {} THEN 0 ELSE CHOOSE n \in ns : \A m \in ns : m <= n

\* The first existing ancestor with its links followed, then the segments
\* that do not exist, unchanged.
ExpectedCanonical(x) ==
    LET r == Resolve(x)
        k == ExistingPrefix(r)
    IN  (IF existsSync(SubSeq(r, 1, k)) THEN realpathSync(SubSeq(r, 1, k)) ELSE SubSeq(r, 1, k))
        \o SubSeq(r, k + 1, Len(r))

\* C27: canonicalizePath is idempotent, and its walk up the parents ends at
\* the first existing ancestor (or the root): the result is that ancestor with
\* its links followed, joined with the segments below it.
C27_Canonicalize ==
    /\ pc = "idle" =>
          \A x \in CanonProbes :
             /\ canonicalizePath(canonicalizePath(x)) = canonicalizePath(x)
             /\ canonicalizePath(x) = ExpectedCanonical(x)
    /\ (HasInfo /\ cmd = "add" /\ normalizeBranch(arg).ok) =>
          /\ canonicalizePath(canonicalizePath(AddTarget(info, arg)))
               = canonicalizePath(AddTarget(info, arg))
          /\ canonicalizePath(AddTarget(info, arg)) = ExpectedCanonical(AddTarget(info, arg))

C27_Witness ==
    /\ pc = "add" /\ HasInfo /\ normalizeBranch(arg).ok
    /\ home = HomeLink
    /\ ~existsSync(AddTarget(info, arg))
    /\ AddTarget(info, arg) = <<Seg_t, Seg_worktrees, <<"r", "_", "_", "e">>>>
    /\ canonicalizePath(AddTarget(info, arg)) = <<Seg_h, Seg_worktrees, <<"r", "_", "_", "e">>>>
    /\ canonicalizePath(<<Seg_t, Seg_worktrees, Seg_x, Seg_p>>)
         = <<Seg_h, Seg_worktrees, Seg_x, Seg_p>>

\* The inventory a command started now in the same environment would build.
Rebuilt == getRepoInfo(Porcelain(wts), GitShowToplevel).val

AddSucceeded == Done /\ cmd = "add" /\ exitCode = 0

\* The entries of the rebuilt inventory for `branch` that are managed and
\* listed by the bare branch name.
ManagedEntriesOf(branch) ==
    {i \in DOMAIN Rebuilt.worktrees :
        /\ Rebuilt.worktrees[i].branch = branch
        /\ Rebuilt.worktrees[i].managed
        /\ listLabel(Rebuilt.worktrees[i]) = branch}

Occupants(inf, branch) ==
    {i \in DOMAIN wts :
        /\ wts[i].path = canonicalizePath(AddTarget(inf, branch))
        /\ wts[i].path \in dirs
        /\ wts[i].branch # branch}

\* C29: no two worktrees ever occupy the same path; an add of a branch whose
\* slug is that of another branch's worktree (f_x after f/x) fails with
\* 'Worktree path already exists', creates no directory, runs no git command
\* that changes anything, and leaves that worktree as it was.
C29_OnePathOneWorktree ==
    /\ \A i, j \in DOMAIN wts : wts[i].path = wts[j].path => i = j
    /\ (Done /\ cmd = "add" /\ HasInfo /\ normalizeBranch(arg).ok
          /\ Occupants(info, arg) # {}) =>
          /\ stderr = <<[kind |-> "Worktree path already exists",
                         about |-> AddTarget(info, arg)]>>
          /\ AddRefused
          /\ CallsOf(Mutating) = {}
          /\ ListedSeq(parseWorktrees(Porcelain(wts))) = ListedSeq(info.worktrees)

C29_Witness ==
    /\ Done /\ cmd = "add" /\ arg = F_X /\ runs = 2
    /\ \E i \in DOMAIN wts : wts[i].branch = MainBranch /\ wts[i].path = Managed(MainBranch)
    /\ \E i \in Occupants(info, arg) : wts[i].branch = FX /\ wts[i].path = Managed(F_X)
    /\ stderr = <<[kind |-> "Worktree path already exists", about |-> AddTarget(info, arg)]>>
    /\ AddRefused

\* A merge with an explicit branch, run with stdin or stdout not a TTY.
UnattendedMerge == cmd = "merge" /\ Trim(arg) # <<>> /\ ~Interactive

\* In an unattended merge: nothing has been prompted; after a successful
\* `git merge` of a target that is not main the command is in the cleanup,
\* and when it has ended the next command was `git worktree remove` of the
\* target and, that having succeeded, the one after it `git branch -d` of the
\* target's branch.
UnattendedCleanup ==
    UnattendedMerge =>
        /\ prompts = <<>>
        /\ \A k \in CallsOf({"git merge"}) :
              (calls[k].ok /\ ~info.worktrees[local.target].isMain) =>
                 LET target == info.worktrees[local.target]
                 IN  /\ target.branch = Trim(arg)
                     /\ target.branch # local.currentBranch
                     /\ pc \in {"cleanup_confirm", "cleanup_remove", "cleanup_branch", "done"}
                     /\ pc \in {"cleanup_branch", "done"} =>
                           /\ Len(calls) > k
                           /\ calls[k + 1].cmd = "git worktree remove"
                           /\ calls[k + 1].args = <<target.path>>
                     /\ (Done /\ calls[k + 1].ok) =>
                           /\ Len(calls) = k + 2
                           /\ calls[k + 2].cmd = "git branch -d"
                           /\ calls[k + 2].args = <<target.branch>>
                     /\ (Done /\ exitCode = 0) =>
                           /\ Len(calls) = k + 2
                           /\ calls[k + 1].ok
                           /\ calls[k + 2].ok

\* In an unattended merge each confirmation is passed in one step, with no
\* prompt, to the command it guards.
UnattendedConfirm ==
    (UnattendedMerge /\ pc \in {"merge_confirm", "cleanup_confirm"}) =>
        /\ prompts' = prompts
        /\ pc' = IF pc = "merge_confirm" THEN "merge_git" ELSE "cleanup_remove"

\* C30: a merge with an explicit branch and stdin or stdout not a TTY shows no
\* prompt; for a target that is not main and whose branch is not the current
\* one, a successful `git merge` is followed without confirmation by
\* `git worktree remove` of the target and then `git branch -d` of its branch,
\* whatever the current branch is.
C30_UnattendedMerge == []UnattendedCleanup /\ [][UnattendedConfirm]_vars

C30_Witness ==
    /\ UnattendedMerge /\ Done /\ exitCode = 0
    /\ ~stdinTTY /\ stdoutTTY
    /\ local.currentBranch = <<>>
    /\ prompts = <<>>
    /\ ~info.worktrees[local.target].isMain
    /\ Len(calls) >= 3
    /\ calls[Len(calls) - 2] = Call("git merge", <<Trim(arg)>>, TRUE)
    /\ calls[Len(calls) - 1]
         = Call("git worktree remove", <<info.worktrees[local.target].path>>, TRUE)
    /\ calls[Len(calls)] = Call("git branch -d", <<Trim(arg)>>, TRUE)

====
